---- MODULE Spec2Model ----
(***************************************************************************)
(* SOLA History (app.py): the runner override store, the override          *)
(* resolver, the fact-table join of load_data, and the head-to-head view.  *)
(*                                                                         *)
(* Encoding of values.  A text value is a sequence of one-character        *)
(* strings, so that the label formatting and parsing of the views can be   *)
(* modelled character by character.  JSON true / false are the texts       *)
(* <<"T">> / <<"F">>.  None / NaN of a text column is NULL, of a numeric   *)
(* column NaN.  A table (DataFrame) is a sequence of rows, a row a         *)
(* function from column names to values.                                   *)
(***************************************************************************)
EXTENDS Integers, Sequences, FiniteSets, TLC

VARIABLES
    races,      \* load_json("races"): <<>> when the file is missing, invalid or empty
    legs,       \* load_json("legs")
    teams,      \* load_json("teams")
    runners,    \* load_json("runners"): the base runner records
    results,    \* load_json("results")
    file,       \* RUNNER_OVERRIDES_FILE on disk: [exists, mode, content]
    cache,      \* the st.cache_data entry of load_data(), one per process
    pc,         \* per session: where its script run stands
    data,       \* per session: what load_data() returned to the current run
    overrides,  \* per session: the dict loaded at line 1960 and edited at 2127
    editing,    \* per session: the runner id selected in the admin form
    handle,     \* per session: the open file object of save_runner_overrides
    shown,      \* per session: the st.error / st.success messages of the run
    prev,       \* per session: the document on disk when its save started
    h2h,        \* per session: what the head-to-head section rendered
    saves,      \* per session: the number of forms it has submitted
    exported,   \* per session: what the export section of the admin tab built
    plan,       \* the planning tab: its widget values and what its loop built
    views       \* per session: the year view, runner details and overview of a run

vars == <<races, legs, teams, runners, results, file, cache, pc, data,
          overrides, editing, handle, shown, prev, h2h, saves, exported, plan,
          views>>

baseVars == <<races, legs, teams, runners, results, saves, exported, plan, views>>

(***************************************************************************)
(* Values                                                                  *)
(***************************************************************************)
NULL == <<"None">>
NaN == 0 - 1

TrueText == <<"T">>
FalseText == <<"F">>

R1 == <<"r", "1">>
R2 == <<"r", "2">>
L1 == <<"l", "1">>
L2 == <<"l", "2">>
T1 == <<"t", "1">>
T2 == <<"t", "2">>
A1 == <<"a", "1">>
A2 == <<"a", "2">>

NumericCols == {"ind_time_seconds", "year", "num_teams", "distance_km",
                "leg_number", "ind_pace_sec_per_km", "ind_rank_leg", "rank_final"}

NullOf(col) == IF col \in NumericCols THEN NaN ELSE NULL

(***************************************************************************)
(* Generic sequence helpers                                                *)
(***************************************************************************)
RECURSIVE Flatten(_)
Flatten(ss) == IF ss = <<>> THEN <<>> ELSE Head(ss) \o Flatten(Tail(ss))

Range(s) == {s[i] : i \in 1..Len(s)}

\* All sequences over S of length lo..hi.
SeqsOf(S, lo, hi) == UNION {[1..n -> S] : n \in lo..hi}

(***************************************************************************)
(* The JSON document of the override store.  The file holds a sequence of  *)
(* tokens in the order json.dump emits them: "{", one token per            *)
(* "runner_id": {fields} member, "}".  "[" and "]" are a JSON array, NUL   *)
(* is the hole a write past the end of a truncated file leaves.            *)
(* A mapping (dict) is a sequence of entries [rid, fields] with distinct   *)
(* rid, in insertion order; fields is a function from field names.         *)
(***************************************************************************)
Tok(kind, rid, fields) == [kind |-> kind, rid |-> rid, fields |-> fields]

OpenBrace == Tok("{", NULL, <<>>)
CloseBrace == Tok("}", NULL, <<>>)
OpenBracket == Tok("[", NULL, <<>>)
CloseBracket == Tok("]", NULL, <<>>)
NulTok == Tok("NUL", NULL, <<>>)

Entry(rid, fields) == [rid |-> rid, fields |-> fields]

\* A member of the document whose value is no JSON object (a number, a
\* string, a list, true, false or null): its "fields" are this marker, which
\* is no field map of a runner.
NotADict == [c \in {"<not an object>"} |-> NULL]

\* isinstance(fields, dict)
IsDict(fields) == fields # NotADict

\* json.dump(overrides, f): the document text, token by token.
JsonDump(mapping) ==
    <<OpenBrace>>
    \o [i \in 1..Len(mapping) |-> Tok("member", mapping[i].rid, mapping[i].fields)]
    \o <<CloseBrace>>

\* dict[key] = value: replaces in place, or appends.
DictSet(mapping, rid, fields) ==
    IF \E i \in 1..Len(mapping) : mapping[i].rid = rid
    THEN [i \in 1..Len(mapping) |->
            IF mapping[i].rid = rid THEN Entry(rid, fields) ELSE mapping[i]]
    ELSE Append(mapping, Entry(rid, fields))

RECURSIVE DictFromPairs(_)
DictFromPairs(toks) ==
    IF toks = <<>> THEN <<>>
    ELSE LET n == Len(toks)
             t == toks[n]
         IN DictSet(DictFromPairs(SubSeq(toks, 1, n - 1)), t.rid, t.fields)

\* json.load(f): [ok, isdict, value]; ok = FALSE is a JSONDecodeError.
JsonLoad(content) ==
    LET n == Len(content) IN
    IF n = 2 /\ content[1] = OpenBracket /\ content[2] = CloseBracket
    THEN [ok |-> TRUE, isdict |-> FALSE, value |-> <<>>]
    ELSE IF /\ n >= 2
            /\ content[1] = OpenBrace
            /\ content[n] = CloseBrace
            /\ \A i \in 2..(n - 1) : content[i].kind = "member"
    THEN [ok |-> TRUE, isdict |-> TRUE,
          value |-> DictFromPairs(SubSeq(content, 2, n - 1))]
    ELSE [ok |-> FALSE, isdict |-> FALSE, value |-> <<>>]

(***************************************************************************)
(* load_runner_overrides (lines 376-408).  The result records which        *)
(* handler produced it; raised = TRUE would be an exception leaving the    *)
(* function.                                                               *)
(***************************************************************************)
\* Variant: no generic except branch, the exception leaves the function.
CatchAllMissing(f) == [raised |-> TRUE, value |-> <<>>, via |-> "uncaught"]

CatchAllHandler(f) == [raised |-> FALSE, value |-> <<>>, via |-> "except Exception"]

LoadRunnerOverridesFrom(f) ==
    IF ~f.exists
    THEN [raised |-> FALSE, value |-> <<>>, via |-> "absent"]
    ELSE IF f.mode = "none"
    THEN CatchAllHandler(f)                         \* open() raises PermissionError
    ELSE LET j == JsonLoad(f.content) IN
         IF ~j.ok
         THEN [raised |-> FALSE, value |-> <<>>, via |-> "except JSONDecodeError"]
         ELSE IF j.isdict
         THEN [raised |-> FALSE, value |-> j.value, via |-> "dict"]
         ELSE [raised |-> FALSE, value |-> <<>>, via |-> "not a dict"]

load_runner_overrides == LoadRunnerOverridesFrom(file)

(***************************************************************************)
(* Tables.  The column sets are those of the JSON records; the primary key *)
(* of races, legs, teams and runners is "id" in the files and is renamed   *)
(* by load_data (lines 567-570).                                           *)
(***************************************************************************)
RawRaceCols == {"id", "year", "event_name", "num_teams", "location"}
RawLegCols == {"id", "race_id", "name", "leg_number", "distance_km"}
RawTeamCols == {"id", "race_id", "name", "rank_final"}
RawRunnerCols == {"id", "first_name", "last_name", "company", "active"}
ResultCols == {"runner_id", "leg_id", "team_id", "race_id", "ind_time_seconds",
               "ind_pace_sec_per_km", "ind_rank_leg"}

\* DataFrame.rename(columns={old: new}) on the column set and on the rows.
RenameCols(cols, old, new) ==
    IF old \in cols THEN (cols \ {old}) \cup {new} ELSE cols

RenameTable(df, cols, old, new) ==
    [i \in 1..Len(df) |->
        [c \in RenameCols(cols, old, new) |->
            IF c = new /\ old \in cols THEN df[i][old] ELSE df[i][c]]]

RaceCols == RenameCols(RawRaceCols, "id", "race_id")
LegCols == RenameCols(RawLegCols, "id", "leg_id")
TeamCols == RenameCols(RawTeamCols, "id", "team_id")
RunnerCols == RenameCols(RawRunnerCols, "id", "runner_id")

RaceProjection == {"race_id", "year", "event_name", "num_teams"}

\* df[[...]]: projection on a column list.
Project(df, cols) == [i \in 1..Len(df) |-> [c \in cols |-> df[i][c]]]

(***************************************************************************)
(* pandas merge.  Key values are compared by equality, and a null key      *)
(* matches a null key (pandas joins NaN with NaN).  A column of the right  *)
(* table that is also a column of the left one gets the right suffix (the  *)
(* left suffix is "" in every merge of load_data).  The left order is      *)
(* kept; the matches of one left row follow the right table's order.       *)
(***************************************************************************)
RenameRight(c, lcols, suffix) == IF c \in lcols THEN c \o suffix ELSE c

MergeCols(lcols, rcols, key, suffix) ==
    lcols \cup {RenameRight(c, lcols, suffix) : c \in rcols \ {key}}

MergeRow(l, r, lcols, rcols, key, suffix) ==
    [c \in MergeCols(lcols, rcols, key, suffix) |->
        IF c \in lcols THEN l[c]
        ELSE r[CHOOSE rc \in rcols \ {key} : RenameRight(rc, lcols, suffix) = c]]

NullRow(rcols) == [c \in rcols |-> NullOf(c)]

KeyMatches(right, key, v) == SelectSeq(right, LAMBDA r : r[key] = v)

\* how="inner": a left row without a match is dropped.
InnerRowsFor(l, right, lcols, rcols, key, suffix) ==
    LET m == KeyMatches(right, key, l[key])
    IN [i \in 1..Len(m) |-> MergeRow(l, m[i], lcols, rcols, key, suffix)]

\* Variant of LeftRowsFor: how="inner".
LeftRowsForInner(l, right, lcols, rcols, key, suffix) ==
    InnerRowsFor(l, right, lcols, rcols, key, suffix)

\* how="left": a left row without a match is kept, with nulls on the right.
LeftRowsFor(l, right, lcols, rcols, key, suffix) ==
    LET m == KeyMatches(right, key, l[key])
    IN IF m = <<>>
       THEN <<MergeRow(l, NullRow(rcols), lcols, rcols, key, suffix)>>
       ELSE [i \in 1..Len(m) |-> MergeRow(l, m[i], lcols, rcols, key, suffix)]

LeftMerge(left, right, lcols, rcols, key, suffix) ==
    Flatten([i \in 1..Len(left) |->
                LeftRowsFor(left[i], right, lcols, rcols, key, suffix)])

(***************************************************************************)
(* apply_runner_overrides_df (lines 489-524), on the mapping that          *)
(* load_runner_overrides returns.  The mask of an entry is taken before    *)
(* its fields are assigned; a field that is no column of the table is      *)
(* skipped.                                                                *)
(***************************************************************************)
\* Variant: truthiness instead of presence, a null override falls through.
OverrideCellIfSet(row, fields, col) ==
    IF col \in DOMAIN fields /\ fields[col] # NULL THEN fields[col] ELSE row[col]

OverrideCell(row, fields, col) ==
    IF col \in DOMAIN fields THEN fields[col] ELSE row[col]

\* Variant: the fields of an entry are written to every row.
ApplyEntryToAll(df, cols, e) ==
    [i \in 1..Len(df) |-> [c \in cols |-> OverrideCell(df[i], e.fields, c)]]

ApplyEntry(df, cols, e) ==
    LET mask == {i \in 1..Len(df) : df[i]["runner_id"] = e.rid}
    IN [i \in 1..Len(df) |->
          IF i \in mask
          THEN [c \in cols |-> OverrideCell(df[i], e.fields, c)]
          ELSE df[i]]

RECURSIVE ApplyEntries(_, _, _)
ApplyEntries(df, cols, mapping) ==
    IF mapping = <<>> THEN df
    ELSE ApplyEntries(ApplyEntry(df, cols, Head(mapping)), cols, Tail(mapping))

apply_runner_overrides_df(runners_df, cols, f) ==
    LET ov == LoadRunnerOverridesFrom(f).value
    IN IF ov = <<>> THEN runners_df ELSE ApplyEntries(runners_df, cols, ov)

\* fields.items() (line 519) is an AttributeError when the value of an entry
\* is no dict; the line is reached for an entry whose mask selects a row.
\* TRUE when the loop of lines 515-521 raises.
RECURSIVE ApplyEntriesRaises(_, _, _)
ApplyEntriesRaises(df, cols, mapping) ==
    IF mapping = <<>> THEN FALSE
    ELSE LET e == Head(mapping)
             mask == {i \in 1..Len(df) : df[i]["runner_id"] = e.rid}
         IN IF mask # {} /\ ~IsDict(e.fields)
            THEN TRUE
            ELSE ApplyEntriesRaises(ApplyEntry(df, cols, e), cols, Tail(mapping))

\* apply_runner_overrides_df has no try/except: TRUE when the call raises.
ApplyRunnerOverridesRaises(runners_df, cols, f) ==
    LET ov == LoadRunnerOverridesFrom(f).value
    IN ov # <<>> /\ ApplyEntriesRaises(runners_df, cols, ov)

(***************************************************************************)
(* load_data (lines 527-607) without its cache: the body of the function.  *)
(* None is [ok |-> FALSE]; raised = TRUE is an exception that leaves the   *)
(* function (it has no try/except), and then nothing is returned.          *)
(***************************************************************************)
NoneData == [ok |-> FALSE, raised |-> FALSE, races |-> <<>>, legs |-> <<>>,
             teams |-> <<>>, runners |-> <<>>, merged |-> <<>>]

RaisedData == [NoneData EXCEPT !.raised = TRUE]

\* Variant: "and" in place of "or".
AllEmpty(ra, le, te, ru, re) ==
    ra = <<>> /\ le = <<>> /\ te = <<>> /\ ru = <<>> /\ re = <<>>

AnyEmpty(ra, le, te, ru, re) ==
    ra = <<>> \/ le = <<>> \/ te = <<>> \/ ru = <<>> \/ re = <<>>

Cols1 == MergeCols(ResultCols, RunnerCols, "runner_id", "_runner")
Cols2 == MergeCols(Cols1, LegCols, "leg_id", "_leg")
Cols3 == MergeCols(Cols2, TeamCols, "team_id", "_team")
Cols4 == MergeCols(Cols3, RaceProjection, "race_id", "_y")
MergedCols == RenameCols(RenameCols(Cols4, "name_team", "team_name"), "name", "leg_name")

FactJoin(res, ru, le, te, ra) ==
    LET m1 == LeftMerge(res, ru, ResultCols, RunnerCols, "runner_id", "_runner")
        m2 == LeftMerge(m1, le, Cols1, LegCols, "leg_id", "_leg")
        m3 == LeftMerge(m2, te, Cols2, TeamCols, "team_id", "_team")
        m4 == LeftMerge(m3, Project(ra, RaceProjection), Cols3, RaceProjection,
                        "race_id", "_y")
    IN RenameTable(RenameTable(m4, Cols4, "name_team", "team_name"),
                   RenameCols(Cols4, "name_team", "team_name"), "name", "leg_name")

\* Variant: a dict that a session still holds in memory is applied in
\* place of the override file.
LoadDataBodyFromMemory ==
    LET held == {s \in DOMAIN overrides : overrides[s] # <<>>}
        store == IF held = {} THEN file
                 ELSE [exists |-> TRUE, mode |-> "rw",
                       content |-> JsonDump(overrides[CHOOSE s \in held : TRUE])]
    IN IF AnyEmpty(races, legs, teams, runners, results)
       THEN NoneData
       ELSE LET runners_df == apply_runner_overrides_df(
                                  RenameTable(runners, RawRunnerCols, "id", "runner_id"),
                                  RunnerCols, store)
            IN [ok |-> TRUE, raised |-> FALSE,
                races |-> RenameTable(races, RawRaceCols, "id", "race_id"),
                legs |-> RenameTable(legs, RawLegCols, "id", "leg_id"),
                teams |-> RenameTable(teams, RawTeamCols, "id", "team_id"),
                runners |-> runners_df,
                merged |-> FactJoin(results, runners_df,
                                    RenameTable(legs, RawLegCols, "id", "leg_id"),
                                    RenameTable(teams, RawTeamCols, "id", "team_id"),
                                    RenameTable(races, RawRaceCols, "id", "race_id"))]

LoadDataBody ==
    IF AnyEmpty(races, legs, teams, runners, results)
    THEN NoneData
    ELSE LET races_df == RenameTable(races, RawRaceCols, "id", "race_id")
             legs_df == RenameTable(legs, RawLegCols, "id", "leg_id")
             teams_df == RenameTable(teams, RawTeamCols, "id", "team_id")
             base_df == RenameTable(runners, RawRunnerCols, "id", "runner_id")
             runners_df == apply_runner_overrides_df(base_df, RunnerCols, file)
         IN IF ApplyRunnerOverridesRaises(base_df, RunnerCols, file)
            THEN RaisedData
            ELSE [ok |-> TRUE, raised |-> FALSE,
                  races |-> races_df,
                  legs |-> legs_df,
                  teams |-> teams_df,
                  runners |-> runners_df,
                  merged |-> FactJoin(results, runners_df, legs_df, teams_df, races_df)]

\* @st.cache_data: the first call of the process computes, later ones
\* return the stored value (the function has no arguments, so one entry).
\* A call that raises stores nothing.
NotCached == [set |-> FALSE, value |-> NoneData]

CachedCall(c) == IF c.set THEN c.value ELSE LoadDataBody


(***************************************************************************)
(* Selectbox labels (lines 1038-1041, 1937-1940) and the way the views map *)
(* a label back to a runner id (lines 1235-1236, 1948).                    *)
(***************************************************************************)
\* str(value) inside an f-string.
Text(v) == IF v = NULL THEN <<"N", "o", "n", "e">> ELSE v

NotSelected == <<"(", "s", "e", "l", "e", "c", "t", ")">>

\* f"{row['first_name']} {row['last_name']} ({row['runner_id']})"
RunnerLabel(row) ==
    Text(row["first_name"]) \o <<" ">> \o Text(row["last_name"])
        \o <<" ", "(">> \o Text(row["runner_id"]) \o <<")">>

\* label.split("(")[-1]: what follows the last "(" (all of it when there is none).
AfterLast(label, ch) ==
    LET at == {i \in 1..Len(label) : label[i] = ch}
    IN IF at = {} THEN label
       ELSE SubSeq(label, (CHOOSE i \in at : \A j \in at : j <= i) + 1, Len(label))

\* text.rstrip(")"): every trailing ")" is removed.
RECURSIVE RStrip(_, _)
RStrip(text, ch) ==
    IF text # <<>> /\ text[Len(text)] = ch
    THEN RStrip(SubSeq(text, 1, Len(text) - 1), ch)
    ELSE text

ParseRunnerId(label) == RStrip(AfterLast(label, "("), ")")

RunnerOptions(runners_df) == {RunnerLabel(runners_df[i]) : i \in 1..Len(runners_df)}

(***************************************************************************)
(* Head-to-head section (lines 1234-1384).                                 *)
(***************************************************************************)
TieText == <<"T", "i", "e">>

StageCols == {"leg_id", "year", "leg_name", "ind_time_seconds"}

RowsOf(merged, rid) == SelectSeq(merged, LAMBDA row : row["runner_id"] = rid)

\* Series.nunique(): the distinct non-null values.
NUnique(df, col) == Cardinality({df[i][col] : i \in 1..Len(df)} \ {NullOf(col)})

\* The non-null values of a column, in row order.
DropNa(df, col) ==
    LET cells == [i \in 1..Len(df) |-> df[i][col]]
    IN SelectSeq(cells, LAMBDA v : v # NullOf(col))

RECURSIVE Total(_)
Total(values) ==
    IF values = <<>> THEN 0 ELSE Head(values) + Total(Tail(values))

\* Series.sum(): nulls are skipped, the sum of no value is 0.
SeriesSum(df, col) == Total(DropNa(df, col))

NoMean == <<>>

\* Variant: the mean of no value is 0.
SeriesMeanOrZero(df, col) ==
    LET values == DropNa(df, col)
    IN IF values = <<>> THEN <<0, 1>> ELSE <<Total(values), Len(values)>>

\* Series.mean(): nulls are skipped, the mean of no value is NaN (NoMean);
\* otherwise the quotient sum / count, kept as the pair <<sum, count>>.
SeriesMean(df, col) ==
    LET values == DropNa(df, col)
    IN IF values = <<>> THEN NoMean ELSE <<Total(values), Len(values)>>

\* Series.min(): nulls are skipped, the minimum of no value is NaN.
SeriesMin(df, col) ==
    LET values == DropNa(df, col)
        range == {values[i] : i \in 1..Len(values)}
    IN IF values = <<>> THEN NaN
       ELSE CHOOSE v \in range : \A w \in range : v <= w

\* Lines 1256-1260 and 1269-1273: the career figures of one runner; the
\* display of lines 1286-1296 and 1307-1317 tests pd.notna before it
\* formats the mean pace and the best rank.
CareerStats(r_runs) ==
    [rows |-> Len(r_runs),
     total_runs |-> NUnique(r_runs, "leg_id"),
     total_years |-> NUnique(r_runs, "year"),
     total_km |-> SeriesSum(r_runs, "distance_km"),
     avg_pace |-> SeriesMean(r_runs, "ind_pace_sec_per_km"),
     best_rank |-> SeriesMin(r_runs, "ind_rank_leg")]

SuffixedCols(cols, key, sfx) == {c \o sfx : c \in cols \ {key}}

MatchupCols == {"leg_id"} \cup SuffixedCols(StageCols, "leg_id", "_r1")
                           \cup SuffixedCols(StageCols, "leg_id", "_r2")

MatchupRow(l, r) ==
    [c \in MatchupCols |->
        IF c = "leg_id" THEN l["leg_id"]
        ELSE IF c \in SuffixedCols(StageCols, "leg_id", "_r1")
        THEN l[CHOOSE x \in StageCols : x \o "_r1" = c]
        ELSE r[CHOOSE x \in StageCols : x \o "_r2" = c]]

\* Variant: how="left", a stage of runner 1 without a match is kept.
MatchupsLeft(r1_runs, r2_runs) ==
    LET a == Project(r1_runs, StageCols)
        b == Project(r2_runs, StageCols)
    IN Flatten([i \in 1..Len(a) |->
                  LET m == KeyMatches(b, "leg_id", a[i]["leg_id"])
                  IN IF m = <<>> THEN <<MatchupRow(a[i], NullRow(StageCols))>>
                     ELSE [j \in 1..Len(m) |-> MatchupRow(a[i], m[j])]])

\* Variant: a stage of runner 1 is paired with the first matching row only.
MatchupsFirstMatch(r1_runs, r2_runs) ==
    LET a == Project(r1_runs, StageCols)
        b == Project(r2_runs, StageCols)
    IN Flatten([i \in 1..Len(a) |->
                  LET m == KeyMatches(b, "leg_id", a[i]["leg_id"])
                  IN IF m = <<>> THEN <<>> ELSE <<MatchupRow(a[i], m[1])>>])

\* r1_stages.merge(r2_stages, on=["leg_id"], suffixes=("_r1", "_r2"), how="inner")
Matchups(r1_runs, r2_runs) ==
    LET a == Project(r1_runs, StageCols)
        b == Project(r2_runs, StageCols)
    IN Flatten([i \in 1..Len(a) |->
                  LET m == KeyMatches(b, "leg_id", a[i]["leg_id"])
                  IN [j \in 1..Len(m) |-> MatchupRow(a[i], m[j])]])

\* Variant: a missing time is below every time.
LessNaNFirst(a, b) == a < b

\* a < b on floats: False as soon as one side is NaN.
Less(a, b) == a # NaN /\ b # NaN /\ a < b

\* Variant: "<=" in place of "<".
WinnerNotStrict(row, r1_name, r2_name) ==
    IF row["ind_time_seconds_r1"] <= row["ind_time_seconds_r2"] THEN r1_name
    ELSE r2_name

\* The lambda of lines 1346-1347, the value of matchups["winner"] in a row.
Winner(row, r1_name, r2_name) ==
    IF Less(row["ind_time_seconds_r1"], row["ind_time_seconds_r2"]) THEN r1_name
    ELSE IF Less(row["ind_time_seconds_r2"], row["ind_time_seconds_r1"]) THEN r2_name
    ELSE TieText

CountWinner(m, r1_name, r2_name, who) ==
    Cardinality({i \in 1..Len(m) : Winner(m[i], r1_name, r2_name) = who})

FullName(row) == Text(row["first_name"]) \o <<" ">> \o Text(row["last_name"])

NoH2H == [outcome |-> "none", sel1 |-> NotSelected, sel2 |-> NotSelected,
          stats |-> <<>>, matchups |-> <<>>, winners |-> <<>>, counts |-> <<>>]

\* Variant: the guard never holds.
NeverSameRunner(id1, id2) == FALSE

\* The guard of line 1238: the ids parsed from the two labels are equal.
SameRunnerSelected(id1, id2) == id1 = id2

HeadToHeadView(d, label1, label2) ==
    LET id1 == ParseRunnerId(label1)
        id2 == ParseRunnerId(label2)
        sel == [NoH2H EXCEPT !.sel1 = label1, !.sel2 = label2]
    IN IF label1 = NotSelected \/ label2 = NotSelected THEN sel
       ELSE IF SameRunnerSelected(id1, id2)
       THEN [sel EXCEPT !.outcome = "warning"]
       ELSE IF RowsOf(d.runners, id1) = <<>> \/ RowsOf(d.runners, id2) = <<>>
       THEN [sel EXCEPT !.outcome = "IndexError"]          \* .iloc[0] of no row
       ELSE LET r1_name == FullName(RowsOf(d.runners, id1)[1])
                r2_name == FullName(RowsOf(d.runners, id2)[1])
                r1_runs == RowsOf(d.merged, id1)
                r2_runs == RowsOf(d.merged, id2)
                m == Matchups(r1_runs, r2_runs)
            IN [sel EXCEPT
                 !.outcome = "computed",
                 !.stats = <<CareerStats(r1_runs), CareerStats(r2_runs)>>,
                 !.matchups = m,
                 !.winners = [i \in 1..Len(m) |-> Winner(m[i], r1_name, r2_name)],
                 !.counts = IF m = <<>> THEN <<>>
                            ELSE <<[r1_wins |-> CountWinner(m, r1_name, r2_name, r1_name),
                                    r2_wins |-> CountWinner(m, r1_name, r2_name, r2_name),
                                    ties |-> CountWinner(m, r1_name, r2_name, TieText)]>>]


(***************************************************************************)
(* The sidebar's team selector and the year view (lines 829-853, 895-912), *)
(* the runner details (lines 1044-1157) and the runner overview (lines     *)
(* 1463-1482) of one script run, with the runner filter left on "All".     *)
(***************************************************************************)
AllTeams == <<"(", "a", "l", "l", ")">>

PleaseSelect == <<"(", "p", "l", "e", "a", "s", "e", ")">>

\* DataFrame.drop_duplicates(): the first of equal rows is kept.
RECURSIVE DropDuplicates(_)
DropDuplicates(df) ==
    IF df = <<>> THEN <<>>
    ELSE LET front == DropDuplicates(SubSeq(df, 1, Len(df) - 1))
             last == df[Len(df)]
         IN IF \E i \in 1..Len(front) : front[i] = last THEN front
            ELSE Append(front, last)

\* merged[merged["year"] == selected_year]
RowsOfYear(merged, selected_year) ==
    SelectSeq(merged, LAMBDA row : row["year"] = selected_year)

\* Lines 843-847 (the order of the options is that of team_name).
TeamsInYear(merged, selected_year) ==
    DropDuplicates(Project(RowsOfYear(merged, selected_year), {"team_id", "team_name"}))

\* Line 849: f"{row['team_name']} (#{row['team_id'].split('-')[-1]})"
TeamLabel(row) ==
    Text(row["team_name"]) \o <<" ", "(", "#">> \o AfterLast(row["team_id"], "-")
        \o <<")">>

\* str.endswith(suffix)
EndsWith(text, suffix) ==
    /\ Len(suffix) <= Len(text)
    /\ SubSeq(text, Len(text) - Len(suffix) + 1, Len(text)) = suffix

\* Lines 898-903: the team filter of the year view.
YearTeamFilter(year_df, selected_team_label) ==
    IF selected_team_label = AllTeams THEN year_df
    ELSE LET team_suffix == RStrip(AfterLast(selected_team_label, "#"), ")")
         IN SelectSeq(year_df, LAMBDA row : EndsWith(row["team_id"], team_suffix))

NoYearView == [selected_team_label |-> AllTeams, selected_team_id |-> NULL,
               year_df |-> <<>>, num_teams |-> 0]

\* The year view for the option k of the team selector (0: all teams).
YearView(d, selected_year, k) ==
    LET options == TeamsInYear(d.merged, selected_year)
        label == IF k = 0 THEN AllTeams ELSE TeamLabel(options[k])
        year_df == YearTeamFilter(RowsOfYear(d.merged, selected_year), label)
    IN [selected_team_label |-> label,
        selected_team_id |-> IF k = 0 THEN NULL ELSE options[k]["team_id"],
        year_df |-> year_df,
        num_teams |-> NUnique(year_df, "team_id")]

\* Series.idxmin(): the first row that holds the least value.
IdxMin(df, col) ==
    CHOOSE i \in 1..Len(df) :
        /\ \A j \in 1..Len(df) : df[i][col] <= df[j][col]
        /\ \A j \in 1..(i - 1) : df[j][col] # df[i][col]

NoBestFinal == [reported |-> FALSE, rank |-> NaN, name |-> NULL, year |-> NaN]

\* Lines 1136-1157: the best final team rank; int() of a NaN year raises
\* ValueError.
BestFinalTeamRank(runner_runs, teams_df) ==
    LET teams_for_runner ==
            LeftMerge(DropDuplicates(Project(runner_runs, {"team_id", "year"})),
                      Project(teams_df, {"team_id", "name", "rank_final"}),
                      {"team_id", "year"}, {"team_id", "name", "rank_final"},
                      "team_id", "_y")
        teams_with_final_rank ==
            SelectSeq(teams_for_runner, LAMBDA row : row["rank_final"] # NaN)
    IN IF teams_with_final_rank = <<>>
       THEN [outcome |-> "stats", best |-> NoBestFinal]
       ELSE LET row_best == teams_with_final_rank[IdxMin(teams_with_final_rank,
                                                          "rank_final")]
            IN IF row_best["year"] = NaN
               THEN [outcome |-> "ValueError", best |-> NoBestFinal]
               ELSE [outcome |-> "stats",
                     best |-> [reported |-> TRUE, rank |-> row_best["rank_final"],
                               name |-> row_best["name"], year |-> row_best["year"]]]

NoDetails == [outcome |-> "none", label |-> PleaseSelect, total_runs |-> 0,
              best |-> NoBestFinal]

\* Lines 1044-1157 for the selected label.
RunnerDetailsView(d, label) ==
    LET rid == ParseRunnerId(label)
        runner_runs == RowsOf(d.merged, rid)
        final == BestFinalTeamRank(runner_runs, d.teams)
    IN IF label = PleaseSelect THEN NoDetails
       ELSE IF RowsOf(d.runners, rid) = <<>>
       THEN [NoDetails EXCEPT !.outcome = "IndexError", !.label = label]
       ELSE IF runner_runs = <<>>
       THEN [NoDetails EXCEPT !.outcome = "info", !.label = label]
       ELSE [outcome |-> final.outcome, label |-> label,
             total_runs |-> NUnique(runner_runs, "leg_id"),
             best |-> final.best]

\* Variant: the rows are counted.
SeriesSize(df, col) == Len(df)

\* Series.count(): the number of non-null values.
SeriesCount(df, col) == Len(DropNa(df, col))

\* Lines 1467-1482: groupby("runner_id").agg(num_runs=("leg_id", "count"), ...);
\* rows without runner_id belong to no group.
RunnerStats(results_all) ==
    LET ids == {results_all[i]["runner_id"] : i \in 1..Len(results_all)} \ {NULL}
    IN [rid \in ids |->
          LET rows == RowsOf(results_all, rid)
          IN [num_runs |-> SeriesCount(rows, "leg_id"),
              num_years |-> NUnique(rows, "year"),
              total_km |-> SeriesSum(rows, "distance_km")]]

NoViews == [ran |-> FALSE, year |-> NoYearView, details |-> NoDetails,
            overview |-> <<>>]

(***************************************************************************)
(* build_overrides_export_df (lines 157-243).  ExportCols stands for the   *)
(* nineteen columns of base_cols: the key, columns the runner table has    *)
(* and one, "email", that it may lack.                                     *)
(***************************************************************************)
ExportCols == {"runner_id", "first_name", "last_name", "company", "email", "active"}

NoExport == [outcome |-> "none", overrides |-> <<>>, rows |-> <<>>]

\* pd.DataFrame.from_dict(overrides, orient="index"): the columns are the
\* fields that occur in some entry; a key is a row when its field map has
\* at least one field (the nested dict is turned into column -> {key: value}).
OvCols(mapping) == UNION {DOMAIN mapping[k].fields : k \in 1..Len(mapping)}

OvRows(mapping) == SelectSeq(mapping, LAMBDA e : DOMAIN e.fields # {})

\* runners_df.reindex(columns=base_cols): a column the table lacks is null.
Reindex(df, cols, new_cols) ==
    [i \in 1..Len(df) |-> [c \in new_cols |-> IF c \in cols THEN df[i][c] ELSE NULL]]

\* val(col) of lines 213-217 on a row of the right merge: b is the base
\* side, e the override entry; the "_ov" column exists when the field
\* occurs in some entry and is also a column of base.
ExportVal(b, e, ov_cols, col) ==
    LET ov == IF col \in DOMAIN e.fields THEN e.fields[col] ELSE NULL
    IN IF col \in ov_cols /\ ov # NULL THEN ov ELSE b[col]

ExportRow(b, e, ov_cols) ==
    [c \in ExportCols |-> IF c = "runner_id" THEN e.rid ELSE ExportVal(b, e, ov_cols, c)]

\* base.merge(ov_df, on="runner_id", how="right"): per override row, in the
\* order of ov_df, its matching base rows or one all-null base side.
ExportRowsFor(base, e, ov_cols) ==
    LET m == KeyMatches(base, "runner_id", e.rid)
    IN IF m = <<>> THEN <<ExportRow(NullRow(ExportCols), e, ov_cols)>>
       ELSE [j \in 1..Len(m) |-> ExportRow(m[j], e, ov_cols)]

build_overrides_export_df(runners_df, cols, f) ==
    LET loaded == LoadRunnerOverridesFrom(f).value
        base == Reindex(runners_df, cols, ExportCols)
        ov_df == OvRows(loaded)
    IN IF loaded = <<>>
       THEN [outcome |-> "empty", overrides |-> loaded, rows |-> <<>>]
       ELSE IF "runner_id" \in OvCols(loaded)
       THEN [outcome |-> "ValueError", overrides |-> loaded, rows |-> <<>>]  \* reset_index
       ELSE [outcome |-> "table", overrides |-> loaded,
             rows |-> Flatten([k \in 1..Len(ov_df) |->
                                 ExportRowsFor(base, ov_df[k], OvCols(loaded))])]

(***************************************************************************)
(* Planning tab (lines 1696-1921).  A datetime of the race day is the      *)
(* number of seconds since that day's midnight; distances are whole        *)
(* kilometres, 0 standing for an unset or zero distance_km; the runner     *)
(* select box, which no time depends on, is left out.                      *)
(***************************************************************************)
\* datetime.combine(race_date, time(h, m))
Clock(h, m) == h * 3600 + m * 60

NoTime == 0 - 1                       \* restart_time = None

\* dt.strftime("%H:%M"): hour and minute of the day, date and seconds dropped.
StrfHM(dt) == <<(dt % 86400) \div 3600, (dt % 3600) \div 60>>

\* format_seconds_to_hms: "" for 0, else str(timedelta(seconds=...)).
format_seconds_to_hms(seconds) ==
    IF seconds <= 0 THEN <<>>
    ELSE <<seconds \div 3600, (seconds % 3600) \div 60, seconds % 60>>

\* format_pace: minutes and seconds per kilometre.
format_pace(sec_per_km) ==
    IF sec_per_km <= 0 THEN <<>> ELSE <<sec_per_km \div 60, sec_per_km % 60>>

\* Variant: the distance is ignored.
LegTimeOfPaceOnly(pace_input, dist_km) == pace_input

\* Line 1827: pace_input * dist_km if dist_km else 0.0; NaN is truthy and
\* its product is NaN.
LegTimeSec(pace_input, dist_km) ==
    IF dist_km = NaN THEN NaN
    ELSE IF dist_km # 0 THEN pace_input * dist_km ELSE 0

\* Line 1719: race_id_template = f"sola-{template_year}"; the ids A1 and A2
\* stand for "sola-2020" and "sola-2021".
RaceIdTemplate(template_year) ==
    IF template_year = 2020 THEN A1
    ELSE IF template_year = 2021 THEN A2 ELSE <<"a", "?">>

\* Line 1756: legs_df[legs_df["race_id"] == race_id_template]
RowsOfRace(legs_df, race_id) == SelectSeq(legs_df, LAMBDA l : l["race_id"] = race_id)

\* Variant: the rows stay in the order of the file.
SortValuesNone(df, col) == df

RECURSIVE InsertByCol(_, _, _)
InsertByCol(sorted, row, col) ==
    IF sorted = <<>> THEN <<row>>
    ELSE IF row[col] < Head(sorted)[col] THEN <<row>> \o sorted
    ELSE <<Head(sorted)>> \o InsertByCol(Tail(sorted), row, col)

\* Line 1757: sort_values(col), ascending; rows with equal keys are left in
\* the order of the table.
RECURSIVE SortValues(_, _)
SortValues(df, col) ==
    IF df = <<>> THEN <<>>
    ELSE InsertByCol(SortValues(SubSeq(df, 1, Len(df) - 1), col), df[Len(df)], col)

\* Lines 1755-1759.
LegsPlan(legs_df, race_id_template) ==
    SortValues(RowsOfRace(legs_df, race_id_template), "leg_number")

\* pd.DataFrame(data) of load_json: a distance_km column with at least one
\* number is a float column, in which a missing value is NaN; a column
\* without any number holds None.
FloatColumn(legs_df, col) == \E i \in 1..Len(legs_df) : legs_df[i][col] # NaN

\* Line 1786: float(leg.get("distance_km") or 0.0); None and 0 give 0.0,
\* NaN is truthy and stays.
DistKm(leg, float_col) ==
    IF leg["distance_km"] = NaN /\ ~float_col THEN 0 ELSE leg["distance_km"]

\* The value of the widgets of one leg, which are keyed by the leg number
\* (lines 1794, 1804, 1809, 1817); untouched widgets have their defaults.
WidgetOf(widgets, leg_num) ==
    IF leg_num \in DOMAIN widgets THEN widgets[leg_num]
    ELSE [pace_input |-> 360, restart_here |-> FALSE, restart_time |-> NoTime]

\* Variant: a restart earlier than the previous finish is moved to it.
RestartBaseClamped(st, w) ==
    IF w.restart_time < st.base_start_dt + st.cumulative_sec
    THEN st.base_start_dt + st.cumulative_sec
    ELSE w.restart_time

\* Line 1823: base_start_dt = datetime.combine(race_date, restart_time)
RestartBase(st, w) == w.restart_time

\* Variant: the elapsed counter is not advanced.
CumulativeKept(cumulative_sec, leg_time_sec) == cumulative_sec

\* Line 1830: cumulative_sec += leg_time_sec
CumulativeAfter(cumulative_sec, leg_time_sec) == cumulative_sec + leg_time_sec

\* One pass of the loop body, lines 1785-1849, on the loop's locals.
\* timedelta(seconds=NaN) of line 1829 raises ValueError.
PlanStep(st, leg, w, float_col) ==
    LET restart == w.restart_here /\ w.restart_time # NoTime
        base_start_dt == IF restart THEN RestartBase(st, w) ELSE st.base_start_dt
        cumulative_sec == IF restart THEN 0 ELSE st.cumulative_sec
        dist_km == DistKm(leg, float_col)
        leg_time_sec == LegTimeSec(w.pace_input, dist_km)
        start_dt == base_start_dt + cumulative_sec
        end_dt == start_dt + leg_time_sec
    IN IF leg_time_sec = NaN
       THEN [st EXCEPT !.raised = TRUE]
       ELSE [st EXCEPT
               !.base_start_dt = base_start_dt,
               !.cumulative_sec = CumulativeAfter(cumulative_sec, leg_time_sec),
               !.times = Append(@, [start_dt |-> start_dt, end_dt |-> end_dt,
                                    elapsed_before |-> cumulative_sec]),
               !.plan_rows = Append(@,
                  [Stage |-> leg["leg_number"],
                   Distance |-> dist_km,
                   PaceSec |-> w.pace_input,
                   Pace |-> format_pace(w.pace_input),
                   PlannedTime |-> format_seconds_to_hms(leg_time_sec),
                   PlannedStart |-> StrfHM(start_dt),
                   PlannedFinish |-> StrfHM(end_dt),
                   RestartHere |-> IF w.restart_here THEN "Yes" ELSE "No"])]

RECURSIVE PlanLoop(_, _, _, _, _)
PlanLoop(st, legs_plan, widgets, float_col, i) ==
    IF i > Len(legs_plan) \/ st.raised THEN st
    ELSE PlanLoop(PlanStep(st, legs_plan[i],
                           WidgetOf(widgets, legs_plan[i]["leg_number"]), float_col),
                  legs_plan, widgets, float_col, i + 1)

\* Lines 1777-1779 and the loop of line 1784.
Simulate(legs_plan, widgets, race_start_time, float_col) ==
    PlanLoop([base_start_dt |-> race_start_time, cumulative_sec |-> 0,
              raised |-> FALSE, times |-> <<>>, plan_rows |-> <<>>],
             legs_plan, widgets, float_col, 1)

NoPlan == [template_year |-> 0, widgets |-> <<>>, race_start_time |-> 0,
           ran |-> FALSE, outcome |-> "none", legs_plan |-> <<>>,
           times |-> <<>>, plan_rows |-> <<>>]

(***************************************************************************)
(* Sessions.  Streamlit runs main() once per interaction of a session, in  *)
(* a thread of the one server process; two sessions interleave at their    *)
(* file operations.                                                        *)
(***************************************************************************)
Sessions == {"s1", "s2"}

\* How many forms one session submits.
MaxSaves == 1

ViewSessions == {"s1"}

NoHandle == [open |-> FALSE, off |-> 0, buf |-> <<>>]

NoPrev == [started |-> FALSE, doc |-> <<>>]

\* f.write at the handle's own position: the bytes there are overwritten,
\* a gap past the end of the file reads as NUL.
WriteAt(content, off, toks) ==
    LET end == off + Len(toks)
        n == IF Len(content) > end THEN Len(content) ELSE end
    IN [i \in 1..n |->
          IF i > off /\ i <= end THEN toks[i - off]
          ELSE IF i <= Len(content) THEN content[i]
          ELSE NulTok]

\* The entry the admin form writes (lines 2127-2144): every form field is
\* present; an empty text input is stored as None.  "active" and "company"
\* stand for the fields that are columns of runners.json, "email" for those
\* that may not be.
FormEntry(active) == [c \in {"active", "company", "email"} |->
                        IF c = "active" THEN active ELSE NULL]

\* Variant of Run: the effective runners are stored back as the base
\* collection.
RunWritingBack(s) ==
    /\ pc[s] \in {"idle", "killed"}
    /\ LET d == CachedCall(cache) IN
         /\ cache' = IF d.raised THEN cache ELSE [set |-> TRUE, value |-> d]
         /\ data' = [data EXCEPT ![s] = d]
         /\ pc' = [pc EXCEPT ![s] = IF d.ok THEN "rendered" ELSE "idle"]
         /\ shown' = [shown EXCEPT ![s] = IF d.ok THEN {}
                                          ELSE IF d.raised THEN {"AttributeError"}
                                          ELSE {"error_load_data"}]
         /\ runners' = IF d.ok
                       THEN RenameTable(d.runners, RunnerCols, "runner_id", "id")
                       ELSE runners
    /\ h2h' = [h2h EXCEPT ![s] = NoH2H]
    /\ overrides' = [overrides EXCEPT ![s] = <<>>]
    /\ editing' = [editing EXCEPT ![s] = NULL]
    /\ prev' = [prev EXCEPT ![s] = NoPrev]
    /\ UNCHANGED <<races, legs, teams, results, saves, exported, plan, views, file,
                   handle>>

\* main() up to line 814: load_data() through its cache.  An exception of
\* load_data is not caught in main and ends the script run.
Run(s) ==
    /\ pc[s] \in {"idle", "killed"}
    /\ LET d == CachedCall(cache) IN
         /\ cache' = IF d.raised THEN cache ELSE [set |-> TRUE, value |-> d]
         /\ data' = [data EXCEPT ![s] = d]
         /\ pc' = [pc EXCEPT ![s] = IF d.ok THEN "rendered" ELSE "idle"]
         /\ shown' = [shown EXCEPT ![s] = IF d.ok THEN {}
                                          ELSE IF d.raised THEN {"AttributeError"}
                                          ELSE {"error_load_data"}]
    /\ h2h' = [h2h EXCEPT ![s] = NoH2H]
    /\ overrides' = [overrides EXCEPT ![s] = <<>>]      \* locals of the last run
    /\ editing' = [editing EXCEPT ![s] = NULL]
    /\ prev' = [prev EXCEPT ![s] = NoPrev]
    /\ UNCHANGED <<baseVars, file, handle>>

\* Lines 1218-1384: the two select boxes and what is rendered for them.
HeadToHead(s, label1, label2) ==
    /\ pc[s] = "rendered"
    /\ h2h[s] = NoH2H
    /\ {label1, label2} \subseteq {NotSelected} \cup RunnerOptions(data[s].runners)
    /\ h2h' = [h2h EXCEPT ![s] = HeadToHeadView(data[s], label1, label2)]
    /\ UNCHANGED <<baseVars, file, cache, pc, data, overrides, editing, handle,
                   shown, prev>>

\* Lines 1942-1965: a runner is selected in the admin tab and the form is
\* rendered from a fresh load_runner_overrides().
AdminSelect(s, label) ==
    /\ pc[s] = "rendered"
    /\ label \in RunnerOptions(data[s].runners)
    /\ LET rid == ParseRunnerId(label) IN
         IF RowsOf(data[s].runners, rid) = <<>>
         THEN /\ shown' = [shown EXCEPT ![s] = @ \cup {"error_runner_not_found"}]
              /\ pc' = [pc EXCEPT ![s] = "idle"]
              /\ UNCHANGED <<overrides, editing>>
         ELSE /\ overrides' = [overrides EXCEPT ![s] = load_runner_overrides.value]
              /\ editing' = [editing EXCEPT ![s] = rid]
              /\ pc' = [pc EXCEPT ![s] = "form"]
              /\ UNCHANGED shown
    /\ UNCHANGED <<baseVars, file, cache, data, handle, prev, h2h>>

\* Lines 2123-2145: the form is submitted; overrides[rid] = {...}.
Submit(s, active) ==
    /\ pc[s] = "form"
    /\ saves[s] < MaxSaves
    /\ saves' = [saves EXCEPT ![s] = @ + 1]
    /\ overrides' = [overrides EXCEPT ![s] = DictSet(@, editing[s], FormEntry(active))]
    /\ pc' = [pc EXCEPT ![s] = "save_open"]
    /\ UNCHANGED <<races, legs, teams, runners, results, file, cache, data, editing,
                   handle, shown, prev, h2h, exported, plan, views>>

\* The script run ends without a submit.
EndRun(s) ==
    /\ pc[s] \in {"rendered", "form"}
    /\ pc' = [pc EXCEPT ![s] = "idle"]
    /\ overrides' = [overrides EXCEPT ![s] = <<>>]
    /\ editing' = [editing EXCEPT ![s] = NULL]
    /\ UNCHANGED <<baseVars, file, cache, data, handle, shown, prev, h2h>>

\* The except branch of save_runner_overrides (lines 484-486): the error is
\* logged and shown, and the function returns normally.
SaveExcept(s) ==
    /\ shown' = [shown EXCEPT ![s] = @ \cup {"save_error"}]
    /\ pc' = [pc EXCEPT ![s] = "saved"]

\* Lines 480-481: mkdir, then open(..., "w"), which truncates the file in
\* place, or raises when the location is not writable.
SaveOpen(s) ==
    /\ pc[s] = "save_open"
    /\ prev' = [prev EXCEPT ![s] = [started |-> TRUE, doc |-> file]]
    /\ IF file.mode # "rw"
       THEN /\ SaveExcept(s)
            /\ UNCHANGED <<file, handle>>
       ELSE /\ file' = [file EXCEPT !.exists = TRUE, !.content = <<>>]
            /\ handle' = [handle EXCEPT ![s] =
                            [open |-> TRUE, off |-> 0, buf |-> JsonDump(overrides[s])]]
            /\ pc' = [pc EXCEPT ![s] = "save_write"]
            /\ UNCHANGED shown
    /\ UNCHANGED <<baseVars, cache, data, overrides, editing, h2h>>

\* Line 482: json.dump writes through the buffered file object; k tokens
\* reach the file in one flush.  After the last one the file is closed
\* and line 483 logs the save.
SaveWrite(s, k) ==
    /\ pc[s] = "save_write"
    /\ k \in 1..Len(handle[s].buf)
    /\ file' = [file EXCEPT !.content =
                    WriteAt(@, handle[s].off, SubSeq(handle[s].buf, 1, k))]
    /\ IF k = Len(handle[s].buf)
       THEN /\ handle' = [handle EXCEPT ![s] = NoHandle]
            /\ pc' = [pc EXCEPT ![s] = "saved"]
       ELSE /\ handle' = [handle EXCEPT ![s] =
                            [open |-> TRUE, off |-> handle[s].off + k,
                             buf |-> SubSeq(handle[s].buf, k + 1, Len(handle[s].buf))]]
            /\ UNCHANGED pc
    /\ UNCHANGED <<baseVars, cache, data, overrides, editing, shown, prev, h2h>>

\* A write or flush raises OSError (disk full, I/O error): the with block
\* closes the file and the except branch runs.
SaveWriteFails(s) ==
    /\ pc[s] = "save_write"
    /\ handle' = [handle EXCEPT ![s] = NoHandle]
    /\ SaveExcept(s)
    /\ UNCHANGED <<baseVars, file, cache, data, overrides, editing, prev, h2h>>

\* Lines 2146-2147, after save_runner_overrides has returned.
Announce(s) ==
    /\ pc[s] = "saved"
    /\ shown' = [shown EXCEPT ![s] = @ \cup {"save_success"}]
    /\ pc' = [pc EXCEPT ![s] = "idle"]
    /\ UNCHANGED <<baseVars, file, cache, data, overrides, editing, handle, prev, h2h>>

\* The server process is killed while a save is writing and is started
\* again: every session and the cache are gone, the file stays as it is.
\* overrides and prev of a killed save are kept as a record of it.
ProcessKill ==
    /\ \E s \in Sessions : pc[s] = "save_write"
    /\ pc' = [s \in Sessions |-> IF pc[s] = "save_write" THEN "killed" ELSE "idle"]
    /\ cache' = NotCached
    /\ data' = [s \in Sessions |-> NoneData]
    /\ handle' = [s \in Sessions |-> NoHandle]
    /\ shown' = [s \in Sessions |-> {}]
    /\ h2h' = [s \in Sessions |-> NoH2H]
    /\ UNCHANGED <<baseVars, file, overrides, editing, prev>>

\* Lines 2149-2162, the export section that closes every run of main():
\* after the form was rendered without a submit, or after the save was
\* announced.  runners_df is what load_data() gave this run, while the
\* function reads the override file as it is now.
Export(s) ==
    /\ \/ pc[s] \in {"rendered", "form"}
       \/ pc[s] = "idle" /\ "save_success" \in shown[s]
    /\ exported[s] = NoExport
    /\ data[s].ok
    /\ exported' = [exported EXCEPT ![s] =
                       build_overrides_export_df(data[s].runners, RunnerCols, file)]
    /\ UNCHANGED <<races, legs, teams, runners, results, saves, plan, views, file,
                   cache, pc, data, overrides, editing, handle, shown, prev, h2h>>

\* Lines 1755-1855: the planning tab of a run, from the template's legs
\* and the current values of the widgets.
PlanTab(s) ==
    /\ pc[s] = "rendered"
    /\ ~plan.ran
    /\ \E i \in 1..Len(data[s].races) : data[s].races[i]["year"] = plan.template_year
    /\ LET legs_plan == LegsPlan(data[s].legs, RaceIdTemplate(plan.template_year))
           st == Simulate(legs_plan, plan.widgets, plan.race_start_time,
                          FloatColumn(data[s].legs, "distance_km"))
       IN IF legs_plan = <<>>
          THEN /\ plan' = [plan EXCEPT !.ran = TRUE, !.outcome = "info"]
               /\ shown' = [shown EXCEPT ![s] = @ \cup {"info_no_stages_template"}]
               /\ UNCHANGED pc
          ELSE IF st.raised
          THEN /\ plan' = [plan EXCEPT !.ran = TRUE, !.outcome = "ValueError",
                                       !.legs_plan = legs_plan]
               /\ pc' = [pc EXCEPT ![s] = "idle"]     \* the script run ends
               /\ UNCHANGED shown
          ELSE /\ plan' = [plan EXCEPT !.ran = TRUE, !.outcome = "table",
                                       !.legs_plan = legs_plan,
                                       !.times = st.times,
                                       !.plan_rows = st.plan_rows]
               /\ UNCHANGED <<shown, pc>>
    /\ UNCHANGED <<races, legs, teams, runners, results, saves, exported, views, file,
                   cache, data, overrides, editing, handle, prev, h2h>>


\* The year view, the runner details and the runner overview of a run, for
\* the selections of the sidebar and of the runner select box; an exception
\* in the runner details ends the run before the overview.
ViewTabs(s, selected_year, k, label) ==
    /\ pc[s] = "rendered"
    /\ ~views[s].ran
    /\ \E i \in 1..Len(data[s].races) : data[s].races[i]["year"] = selected_year
    /\ k \in 0..Len(TeamsInYear(data[s].merged, selected_year))
    /\ label \in {PleaseSelect} \cup RunnerOptions(data[s].runners)
    /\ LET details == RunnerDetailsView(data[s], label)
           raised == details.outcome \in {"IndexError", "ValueError"}
       IN /\ views' = [views EXCEPT ![s] =
                [ran |-> TRUE,
                 year |-> YearView(data[s], selected_year, k),
                 details |-> details,
                 overview |-> IF raised THEN <<>> ELSE RunnerStats(data[s].merged)]]
          /\ pc' = [pc EXCEPT ![s] = IF raised THEN "idle" ELSE @]
    /\ UNCHANGED <<races, legs, teams, runners, results, saves, exported, plan, file,
                   cache, data, overrides, editing, handle, shown, prev, h2h>>


(***************************************************************************)
(* Inputs                                                                  *)
(***************************************************************************)
MaxRunners == 2
MaxJoinResults == 2
MaxH2HResults == 3

RaceRow(id, year) ==
    [id |-> id, year |-> year, event_name |-> <<"S">>, num_teams |-> 9,
     location |-> <<"Z">>]
\* The stage with id L1 is the first one and 5 km long, every other one is
\* the second and 10 km long.
LegRow(id, race, name) ==
    [id |-> id, race_id |-> race, name |-> name,
     leg_number |-> IF id = L1 THEN 1 ELSE 2,
     distance_km |-> IF id = L1 THEN 5 ELSE 10]
\* The team with id T1 finished first, the others have no final rank.
TeamRow(id, race, name) ==
    [id |-> id, race_id |-> race, name |-> name,
     rank_final |-> IF id = T1 THEN 1 ELSE NaN]
RunnerRow(id, first, last, active) ==
    [id |-> id, first_name |-> first, last_name |-> last, company |-> <<"c">>,
     active |-> active]
ResultRow(runner, leg, team, race, seconds) ==
    [runner_id |-> runner, leg_id |-> leg, team_id |-> team, race_id |-> race,
     ind_time_seconds |-> seconds,
     ind_pace_sec_per_km |-> IF seconds = NaN THEN NaN ELSE 300 * seconds,
     ind_rank_leg |-> seconds]

NormalRaces == <<RaceRow(A1, 2020)>>
NormalLegs == <<LegRow(L1, A1, <<"u">>), LegRow(L2, A1, <<"v">>)>>
NormalTeams == <<TeamRow(T1, A1, <<"m">>)>>
NormalRunners == <<RunnerRow(R1, <<"A">>, <<"X">>, TrueText),
                   RunnerRow(R2, <<"B">>, <<"Y">>, TrueText)>>
NormalResults == <<ResultRow(R1, L1, T1, A1, 1), ResultRow(R2, L1, T1, A1, 2)>>

OnDisk(mode, content) == [exists |-> TRUE, mode |-> mode, content |-> content]
Absent(mode) == [exists |-> FALSE, mode |-> mode, content |-> <<>>]

\* Override documents: every mapping with distinct runner ids over the
\* given ids and field maps.
FieldMapsOver(valuesOf) ==
    UNION {{f \in [D -> UNION {valuesOf[c] : c \in DOMAIN valuesOf}] :
               \A c \in D : f[c] \in valuesOf[c]} : D \in SUBSET DOMAIN valuesOf}

MappingsOver(ids, fieldMaps) ==
    {m \in SeqsOf({Entry(r, f) : r \in ids, f \in fieldMaps}, 0, Cardinality(ids)) :
        \A i, j \in 1..Len(m) : i # j => m[i].rid # m[j].rid}

SessionsIdle ==
    /\ cache = NotCached
    /\ pc = [s \in Sessions |-> "idle"]
    /\ data = [s \in Sessions |-> NoneData]
    /\ overrides = [s \in Sessions |-> <<>>]
    /\ editing = [s \in Sessions |-> NULL]
    /\ handle = [s \in Sessions |-> NoHandle]
    /\ shown = [s \in Sessions |-> {}]
    /\ prev = [s \in Sessions |-> NoPrev]
    /\ h2h = [s \in Sessions |-> NoH2H]
    /\ saves = [s \in Sessions |-> 0]
    /\ exported = [s \in Sessions |-> NoExport]
    /\ views = [s \in Sessions |-> NoViews]

NormalTables ==
    /\ races = NormalRaces
    /\ legs = NormalLegs
    /\ teams = NormalTeams
    /\ runners = NormalRunners
    /\ results = NormalResults

\* The override store at the start: absent, unreadable, read-only, empty,
\* truncated, a JSON array, or a document written by an earlier save.
StoreFiles ==
    {Absent("rw"), Absent("ro"),
     OnDisk("rw", <<>>),
     OnDisk("rw", <<OpenBrace, Tok("member", R1, FormEntry(FalseText))>>),
     OnDisk("rw", <<OpenBracket, CloseBracket>>),
     OnDisk("rw", JsonDump(<<>>)),
     OnDisk("rw", JsonDump(<<Entry(R1, FormEntry(FalseText))>>)),
     OnDisk("rw", JsonDump(<<Entry(R2, FormEntry(FalseText)),
                             Entry(R1, FormEntry(TrueText))>>)),
     OnDisk("ro", JsonDump(<<Entry(R1, FormEntry(FalseText))>>)),
     OnDisk("none", JsonDump(<<Entry(R1, FormEntry(FalseText))>>))}

Init ==
    /\ NormalTables
    /\ file \in StoreFiles
    /\ SessionsIdle
    /\ plan = NoPlan

\* One session: the life of the store under a single writer.
Next ==
    \/ \E s \in ViewSessions : Run(s)
    \/ \E s \in ViewSessions : \E label \in RunnerOptions(data[s].runners) :
            AdminSelect(s, label)
    \/ \E s \in ViewSessions : \E active \in {TrueText, FalseText} : Submit(s, active)
    \/ \E s \in ViewSessions : EndRun(s)
    \/ \E s \in ViewSessions : SaveOpen(s)
    \/ \E s \in ViewSessions : \E k \in 1..Len(handle[s].buf) : SaveWrite(s, k)
    \/ \E s \in ViewSessions : SaveWriteFails(s)
    \/ \E s \in ViewSessions : Announce(s)
    \/ ProcessKill

Spec == Init /\ [][Next]_vars

\* Two sessions saving at the same time, no failure.
ConcurrentFiles ==
    {Absent("rw"),
     OnDisk("rw", JsonDump(<<Entry(R1, FormEntry(FalseText))>>)),
     OnDisk("rw", JsonDump(<<Entry(R2, FormEntry(FalseText)),
                             Entry(R1, FormEntry(TrueText))>>))}

InitConcurrent ==
    /\ NormalTables
    /\ file \in ConcurrentFiles
    /\ SessionsIdle
    /\ plan = NoPlan

NextConcurrent ==
    \/ \E s \in Sessions : Run(s)
    \/ \E s \in Sessions : \E label \in RunnerOptions(data[s].runners) :
            AdminSelect(s, label)
    \/ \E s \in Sessions : \E active \in {TrueText, FalseText} : Submit(s, active)
    \/ \E s \in Sessions : SaveOpen(s)
    \/ \E s \in Sessions : \E k \in 1..Len(handle[s].buf) : SaveWrite(s, k)
    \/ \E s \in Sessions : Announce(s)

SpecConcurrent == InitConcurrent /\ [][NextConcurrent]_vars



(***************************************************************************)
(* Inputs of the resolver and of the join: the base runner table and the   *)
(* override document vary (resolver), or the five collections do (join).   *)
(***************************************************************************)
ResolveRunnerRows ==
    {RunnerRow(id, <<"A">>, <<"X">>, a) : id \in {R1, R2}, a \in {TrueText, FalseText}}

\* "email" is a form field that is no column of the modelled runners.json.
ResolveFieldValues ==
    [active |-> {FalseText, NULL}, email |-> {<<"x">>}, runner_id |-> {R2}]

ResolveMappings == MappingsOver({R1, R2}, FieldMapsOver(ResolveFieldValues))

InitResolve ==
    /\ races = NormalRaces
    /\ legs = NormalLegs
    /\ teams = NormalTeams
    /\ results = NormalResults
    /\ runners \in SeqsOf(ResolveRunnerRows, 1, MaxRunners)
    /\ \E m \in ResolveMappings : file = OnDisk("rw", JsonDump(m))

\* One well-formed result row and its deviations: a runner that may be
\* missing, a null leg, a leg, a team and a race that match nothing.
JoinResultRows ==
    {ResultRow(R1, L1, T1, A1, 1), ResultRow(R2, L1, T1, A1, 1),
     ResultRow(R1, NULL, T1, A1, 1), ResultRow(R1, L2, T1, A1, 1),
     ResultRow(R1, L1, T2, A1, 1), ResultRow(R1, L1, T1, A2, 1)}

JoinRunners ==
    {<<>>, <<RunnerRow(R1, <<"A">>, <<"X">>, TrueText)>>,
     NormalRunners,
     <<RunnerRow(R1, <<"A">>, <<"X">>, TrueText),
       RunnerRow(R1, <<"B">>, <<"Y">>, TrueText)>>}

JoinLegs ==
    {<<>>, <<LegRow(L1, A1, <<"u">>)>>,
     <<LegRow(L1, A1, <<"u">>), LegRow(NULL, A1, <<"w">>)>>,
     <<LegRow(L1, A1, <<"u">>), LegRow(L1, A1, <<"v">>)>>}

JoinTeams ==
    {<<>>, <<TeamRow(T1, A1, <<"m">>)>>,
     <<TeamRow(T1, A1, <<"m">>), TeamRow(T1, A1, <<"n">>)>>}

JoinRaces ==
    {<<>>, <<RaceRow(A1, 2020)>>, <<RaceRow(A1, 2020), RaceRow(A1, 2021)>>}

\* No override file, or one that renames runner R2 to R1.
JoinFiles ==
    {Absent("rw"),
     OnDisk("rw", JsonDump(<<Entry(R2, [c \in {"runner_id"} |-> R1])>>))}

InitJoin ==
    /\ races \in JoinRaces
    /\ legs \in JoinLegs
    /\ teams \in JoinTeams
    /\ runners \in JoinRunners
    /\ results \in SeqsOf(JoinResultRows, 0, MaxJoinResults)
    /\ file \in JoinFiles

InitData ==
    /\ InitResolve \/ InitJoin
    /\ SessionsIdle
    /\ plan = NoPlan

NextData == \E s \in ViewSessions : Run(s)

SpecData == InitData /\ [][NextData]_vars

(***************************************************************************)
(* Override documents that are JSON objects of any shape: the value of a   *)
(* member is a field map or no dict at all.                                *)
(***************************************************************************)
ShapeValues == {FormEntry(FalseText), [c \in {"company"} |-> <<"d">>], NotADict}

ShapeFiles ==
    {OnDisk("rw", JsonDump(m)) : m \in MappingsOver({R1, R2, <<"r", "9">>}, ShapeValues)}

InitShapes ==
    /\ races = NormalRaces
    /\ legs = NormalLegs
    /\ teams = NormalTeams
    /\ runners = NormalRunners
    /\ results = NormalResults
    /\ file \in ShapeFiles
    /\ SessionsIdle
    /\ plan = NoPlan

NextShapes ==
    \/ \E s \in Sessions : Run(s)
    \/ \E s \in Sessions : EndRun(s)

SpecShapes == InitShapes /\ [][NextShapes]_vars

(***************************************************************************)
(* Inputs of the head-to-head view: the results vary.                      *)
(***************************************************************************)
H2HResultRows ==
    {ResultRow(r, l, T1, A1, t) : r \in {R1, R2}, l \in {L1, L2, NULL}, t \in {1, 2}}

InitH2H ==
    /\ races = NormalRaces
    /\ legs = NormalLegs
    /\ teams = NormalTeams
    /\ runners = NormalRunners
    /\ results \in SeqsOf(H2HResultRows, 1, MaxH2HResults)
    /\ file = Absent("rw")
    /\ SessionsIdle
    /\ plan = NoPlan

NextH2H ==
    \/ \E s \in ViewSessions : Run(s)
    \/ \E s \in ViewSessions :
         \E label1, label2 \in {NotSelected} \cup RunnerOptions(data[s].runners) :
            HeadToHead(s, label1, label2)

SpecH2H == InitH2H /\ [][NextH2H]_vars

\* The head-to-head view on results of one stage with a time of 1 s, of
\* 2 s or without time, for two runners with different names or with the
\* same first and last name.
SameNameRunners == <<RunnerRow(R1, <<"A">>, <<"X">>, TrueText),
                     RunnerRow(R2, <<"A">>, <<"X">>, TrueText)>>

TimedResultRows == {ResultRow(r, L1, T1, A1, t) : r \in {R1, R2}, t \in {1, 2, NaN}}

InitH2HTimes ==
    /\ races = NormalRaces
    /\ legs = NormalLegs
    /\ teams = NormalTeams
    /\ runners \in {NormalRunners, SameNameRunners}
    /\ results \in SeqsOf(TimedResultRows, 1, MaxH2HResults)
    /\ file = Absent("rw")
    /\ SessionsIdle
    /\ plan = NoPlan

SpecH2HTimes == InitH2HTimes /\ [][NextH2H]_vars

(***************************************************************************)
(* Inputs of the export: stores with an entry for a runner without base    *)
(* record (R3), with an entry that has no field, and written by the form.  *)
(***************************************************************************)
R3 == <<"r", "3">>

ExportFiles ==
    {Absent("rw"),
     OnDisk("rw", JsonDump(<<Entry(R1, FormEntry(FalseText))>>)),
     OnDisk("rw", JsonDump(<<Entry(R3, FormEntry(FalseText)),
                             Entry(R1, [c \in {"active"} |-> FalseText])>>)),
     OnDisk("rw", JsonDump(<<Entry(R1, [c \in {} |-> NULL]),
                             Entry(R2, FormEntry(FalseText))>>)),
     OnDisk("rw", JsonDump(<<Entry(R2, [c \in {"company"} |-> <<"d">>])>>))}

InitExport ==
    /\ NormalTables
    /\ file \in ExportFiles
    /\ SessionsIdle
    /\ plan = NoPlan

NextExport ==
    \/ \E s \in ViewSessions : Run(s)
    \/ \E s \in ViewSessions : \E label \in RunnerOptions(data[s].runners) :
            AdminSelect(s, label)
    \/ \E s \in ViewSessions : \E active \in {TrueText, FalseText} : Submit(s, active)
    \/ \E s \in ViewSessions : SaveOpen(s)
    \/ \E s \in ViewSessions : \E k \in 1..Len(handle[s].buf) : SaveWrite(s, k)
    \/ \E s \in ViewSessions : Announce(s)
    \/ \E s \in ViewSessions : Export(s)

SpecExport == InitExport /\ [][NextExport]_vars

(***************************************************************************)
(* Inputs of the planning tab: the legs of the template year in ascending  *)
(* leg_number, and per leg the pace, the restart box and its time.         *)
(***************************************************************************)
MaxPlanLegs == 3

DistancesKm == {0, 5, 10}

PaceInputs == {150, 360}               \* number_input, 150..720

\* 08:00 lies after the finish of a first leg of 5 km at 150 s/km (07:42:30)
\* and before that of a first leg of 10 km at 360 s/km (08:30).
RestartTimes == {Clock(8, 0)}

LegWidgets ==
    {[pace_input |-> p, restart_here |-> FALSE, restart_time |-> NoTime] : p \in PaceInputs}
    \cup {[pace_input |-> p, restart_here |-> TRUE, restart_time |-> t] :
             p \in PaceInputs, t \in RestartTimes}

Digit == <<"1", "2", "3", "4", "5", "6", "7", "8", "9">>

\* A leg of race A1 as legs.json holds it, and the stage list of a race
\* with the given distances, in ascending leg_number.
PlanLegRow(num, dist) ==
    [id |-> <<"l", Digit[num]>>, race_id |-> A1, name |-> <<"u">>,
     leg_number |-> num, distance_km |-> dist]

PlanLegsFile(dists) == [i \in 1..Len(dists) |-> PlanLegRow(i, dists[i])]

\* legs_plan for that file.
PlanLegs(dists) == RenameTable(PlanLegsFile(dists), RawLegCols, "id", "leg_id")

\* A leg of another race, with a leg number that race A1 also has.
OtherRaceLeg == [LegRow(L2, A2, <<"v">>) EXCEPT !.leg_number = 1]

PlanStart(legs_file, w) ==
    /\ races = NormalRaces
    /\ legs = legs_file
    /\ teams = NormalTeams
    /\ runners = NormalRunners
    /\ results = NormalResults
    /\ file = Absent("rw")
    /\ SessionsIdle
    /\ plan = [NoPlan EXCEPT !.template_year = 2020, !.widgets = w,
                             !.race_start_time = Clock(7, 30)]

InitPlan ==
    \/ PlanStart(<<OtherRaceLeg>>, <<>>)
    \/ \E n \in 1..MaxPlanLegs :
         \E dists \in [1..n -> DistancesKm] : \E w \in [1..n -> LegWidgets] :
            PlanStart(PlanLegsFile(dists), w)

NextPlan ==
    \/ \E s \in ViewSessions : Run(s)
    \/ \E s \in ViewSessions : PlanTab(s)

SpecPlan == InitPlan /\ [][NextPlan]_vars

\* The planning tab on a legs.json in any order: the stages of race A1 with
\* leg numbers 1..n in some order of the file, with or without a stage of
\* another race before them; a distance is 5 km or missing.
FileDistancesKm == {5, NaN}

FileWidgets ==
    {[pace_input |-> 360, restart_here |-> FALSE, restart_time |-> NoTime],
     [pace_input |-> 150, restart_here |-> TRUE, restart_time |-> Clock(8, 0)]}

OrdersOf(n) == {p \in [1..n -> 1..n] : \A i, j \in 1..n : i # j => p[i] # p[j]}

InitPlanLegs ==
    \E n \in 1..MaxPlanLegs :
        \E p \in OrdersOf(n) : \E dists \in [1..n -> FileDistancesKm] :
        \E w \in [1..n -> FileWidgets] : \E other \in {<<>>, <<OtherRaceLeg>>} :
            PlanStart(other \o [i \in 1..n |-> PlanLegRow(p[i], dists[p[i]])], w)

SpecPlanLegs == InitPlanLegs /\ [][NextPlan]_vars

(***************************************************************************)
(* Inputs of the year view, the runner details and the overview: teams     *)
(* "t-1" (final rank 2) and "t-11" (final rank 1) of race A1; results of   *)
(* runner R1 with or without leg, for either team, in race A1 or in a race *)
(* that races.json does not have; one result of R2 for a team that         *)
(* teams.json does not have.                                               *)
(***************************************************************************)
MaxViewResults == 2

TA == <<"t", "-", "1">>
TB == <<"t", "-", "1", "1">>
TC == <<"t", "-", "2">>

ViewTeams == <<[TeamRow(TA, A1, <<"m">>) EXCEPT !.rank_final = 2],
               [TeamRow(TB, A1, <<"n">>) EXCEPT !.rank_final = 1]>>

ViewResultRows ==
    {ResultRow(R1, l, t, a, 1) : l \in {L1, NULL}, t \in {TA, TB}, a \in {A1, A2}}
    \cup {ResultRow(R2, L1, TC, A1, 2)}

InitViews ==
    /\ races = NormalRaces
    /\ legs = NormalLegs
    /\ teams = ViewTeams
    /\ runners = NormalRunners
    /\ results \in SeqsOf(ViewResultRows, 1, MaxViewResults)
    /\ file = Absent("rw")
    /\ SessionsIdle
    /\ plan = NoPlan

NextViews ==
    \/ \E s \in ViewSessions : Run(s)
    \/ \E s \in ViewSessions : \E k \in 0..Len(results) :
         \E label \in {PleaseSelect} \cup RunnerOptions(data[s].runners) :
            ViewTabs(s, 2020, k, label)
    \/ \E s \in ViewSessions :
         \E label1, label2 \in {NotSelected} \cup RunnerOptions(data[s].runners) :
            HeadToHead(s, label1, label2)

SpecViews == InitViews /\ [][NextViews]_vars


(***************************************************************************)
(* Properties                                                              *)
(***************************************************************************)
Store == load_runner_overrides.value

BaseRunnersDf == RenameTable(runners, RawRunnerCols, "id", "runner_id")

NoDuplicateKeys(df, key) ==
    \A i, j \in 1..Len(df) : i # j => df[i][key] # df[j][key]

Min(a, b) == IF a <= b THEN a ELSE b

\* C1, as stated: for every runner id with an entry in the override store
\* and every field F of that entry, the effective runner's value of F is
\* the override's value of F.
C1_EveryOverrideFieldApplied ==
    \A s \in ViewSessions :
        data[s].ok =>
            \A k \in 1..Len(Store) : \A i \in 1..Len(BaseRunnersDf) :
                BaseRunnersDf[i]["runner_id"] = Store[k].rid =>
                    \A F \in DOMAIN Store[k].fields :
                        /\ F \in DOMAIN data[s].runners[i]
                        /\ data[s].runners[i][F] = Store[k].fields[F]

\* C1, amended: when no entry of the store overrides the key runner_id,
\* every field of an entry that is a column of the base runner table has
\* the override's value in each effective row of that runner, null
\* included and whatever the base value; a field that is no column of the
\* base table is not applied.
C1_OverrideColumnsApplied ==
    \A s \in ViewSessions :
        (/\ data[s].ok
         /\ \A k \in 1..Len(Store) : "runner_id" \notin DOMAIN Store[k].fields) =>
            /\ Len(data[s].runners) = Len(BaseRunnersDf)
            /\ \A k \in 1..Len(Store) : \A i \in 1..Len(BaseRunnersDf) :
                 BaseRunnersDf[i]["runner_id"] = Store[k].rid =>
                    \A F \in DOMAIN Store[k].fields :
                        IF F \in RunnerCols
                        THEN data[s].runners[i][F] = Store[k].fields[F]
                        ELSE F \notin DOMAIN data[s].runners[i]

C1_Witness ==
    \E s \in ViewSessions :
        /\ data[s].ok
        /\ \A k \in 1..Len(Store) : "runner_id" \notin DOMAIN Store[k].fields
        /\ \E k \in 1..Len(Store) : \E i \in 1..Len(BaseRunnersDf) :
             /\ BaseRunnersDf[i]["runner_id"] = Store[k].rid
             /\ DOMAIN Store[k].fields = {"active", "email"}
             /\ Store[k].fields["active"] = NULL
             /\ BaseRunnersDf[i]["active"] = TrueText
             /\ data[s].runners[i]["active"] = NULL

\* C2, as stated: when a save has failed or was interrupted after it had
\* started, the file holds the complete previous document or the complete
\* new one.
C2_SaveIsAtomic ==
    \A s \in ViewSessions :
        (/\ pc[s] \in {"saved", "killed"}
         /\ prev[s].started
         /\ pc[s] = "killed" \/ "save_error" \in shown[s]
         /\ LoadRunnerOverridesFrom(prev[s].doc).via = "dict") =>
            /\ file.exists
            /\ file.content \in {prev[s].doc.content, JsonDump(overrides[s])}

\* C3, as stated: once two concurrent saves have both finished, the file
\* holds exactly the mapping passed by one of the two writers.
C3_LastWriterWins ==
    (\A s \in Sessions : pc[s] = "saved" /\ "save_error" \notin shown[s]) =>
        /\ load_runner_overrides.via = "dict"
        /\ \E s \in Sessions : load_runner_overrides.value = overrides[s]

\* C4, as stated: after a save that succeeded, the next load_data() of the
\* process returns the effective runners and the fact table computed from
\* the saved mapping.
C4_LoadReflectsSave ==
    [][\A s \in ViewSessions :
          (/\ pc[s] = "idle"
           /\ "save_success" \in shown[s]
           /\ "save_error" \notin shown[s]
           /\ load_runner_overrides.via = "dict"
           /\ load_runner_overrides.value = overrides[s]
           /\ pc'[s] = "rendered") =>
              data'[s] = LoadDataBody]_vars

\* C5, as stated: a failed save is reported to the caller, which never
\* announces success after it.
C5_NoSuccessAfterFailedSave ==
    \A s \in ViewSessions : ~({"save_error", "save_success"} \subseteq shown[s])

\* C6: load_runner_overrides never raises; it returns the empty mapping
\* when the file is absent, unreadable, not valid JSON or not a JSON object,
\* and the mapping that was dumped into the file otherwise.
C6_LoadNeverRaises ==
    LET r == load_runner_overrides
        readable == file.exists /\ file.mode # "none"
    IN /\ ~r.raised
       /\ ~file.exists => r.value = <<>>
       /\ (file.exists /\ file.mode = "none") => r.value = <<>>
       /\ (readable /\ ~JsonLoad(file.content).ok) => r.value = <<>>
       /\ (readable /\ JsonLoad(file.content).ok /\ ~JsonLoad(file.content).isdict)
             => r.value = <<>>
       /\ \A s \in ViewSessions :
             (readable /\ file.content = JsonDump(overrides[s])) => r.value = overrides[s]
       /\ \A s \in ViewSessions :
             (pc[s] = "form" /\ ~(readable /\ JsonLoad(file.content).ok)) =>
                overrides[s] = <<>>

C6_Witness ==
    \E s \in ViewSessions :
        /\ pc[s] = "form"
        /\ file.exists
        /\ file.mode = "none" \/ ~JsonLoad(file.content).ok
        /\ overrides[s] = <<>>

C8_EmptyInputGivesNone ==
    \A s \in ViewSessions :
        (\/ Len(races) = 0 \/ Len(legs) = 0 \/ Len(teams) = 0
         \/ Len(runners) = 0 \/ Len(results) = 0) =>
            /\ data[s] = NoneData
            /\ pc[s] # "rendered"
            /\ cache.set => cache.value = NoneData

C8_Witness ==
    \E s \in ViewSessions :
        /\ "error_load_data" \in shown[s]
        /\ legs = <<>>
        /\ races # <<>> /\ teams # <<>> /\ runners # <<>> /\ results # <<>>
        /\ data[s] = NoneData

\* C9: when the two selected runners have the same identifier, the only
\* outcome is the warning: no statistics, matchups or counts are computed.
C9_SameRunnerRejected ==
    \A s \in ViewSessions :
        \A i, j \in 1..Len(data[s].runners) :
            (/\ h2h[s].sel1 = RunnerLabel(data[s].runners[i])
             /\ h2h[s].sel2 = RunnerLabel(data[s].runners[j])
             /\ data[s].runners[i]["runner_id"] = data[s].runners[j]["runner_id"]) =>
                /\ h2h[s].outcome = "warning"
                /\ h2h[s].stats = <<>>
                /\ h2h[s].matchups = <<>>
                /\ h2h[s].counts = <<>>

C9_Witness ==
    \E s \in ViewSessions :
        /\ h2h[s].outcome = "warning"
        /\ h2h[s].sel1 = RunnerLabel(data[s].runners[1])
        /\ h2h[s].sel2 = h2h[s].sel1

\* C10, as stated: for two distinct runners the number of matched stages
\* is at most the smaller of their numbers of result rows (read here on
\* results that all have a leg_id).
C10_MatchedAtMostMin ==
    \A s \in ViewSessions :
        (/\ h2h[s].outcome = "computed"
         /\ \A i \in 1..Len(results) : results[i]["leg_id"] # NULL) =>
            Len(h2h[s].matchups) <= Min(h2h[s].stats[1].rows, h2h[s].stats[2].rows)

NoRepeatedLeg(rows) == NoDuplicateKeys(rows, "leg_id")

\* C10, amended: the bound holds when neither runner has two result rows
\* with the same leg_id (a null leg_id counting as a value).
C10_MatchedAtMostMinNoRepeat ==
    \A s \in ViewSessions :
        (/\ h2h[s].outcome = "computed"
         /\ NoRepeatedLeg(RowsOf(data[s].merged, ParseRunnerId(h2h[s].sel1)))
         /\ NoRepeatedLeg(RowsOf(data[s].merged, ParseRunnerId(h2h[s].sel2)))) =>
            Len(h2h[s].matchups) <= Min(h2h[s].stats[1].rows, h2h[s].stats[2].rows)

C10_Witness ==
    \E s \in ViewSessions :
        LET a == RowsOf(data[s].merged, ParseRunnerId(h2h[s].sel1))
            b == RowsOf(data[s].merged, ParseRunnerId(h2h[s].sel2))
        IN /\ h2h[s].outcome = "computed"
           /\ NoRepeatedLeg(a) /\ NoRepeatedLeg(b)
           /\ Len(a) = 2 /\ Len(b) = 1
           /\ Len(h2h[s].matchups) = 1
           /\ \E i \in 1..Len(a) : \A j \in 1..Len(b) : a[i]["leg_id"] # b[j]["leg_id"]

\* C11: in every matched stage the winner is the first runner when its
\* ind_time_seconds is strictly lower, the second runner when that one's is
\* strictly lower, and "Tie" when the two times are equal; the three counts
\* are the numbers of such rows.
C11_WinnerByStrictlyLowerTime ==
    \A s \in ViewSessions :
        h2h[s].outcome = "computed" =>
            LET m == h2h[s].matchups
                w == h2h[s].winners
                a == FullName(RowsOf(data[s].runners, ParseRunnerId(h2h[s].sel1))[1])
                b == FullName(RowsOf(data[s].runners, ParseRunnerId(h2h[s].sel2))[1])
                t1(i) == m[i]["ind_time_seconds_r1"]
                t2(i) == m[i]["ind_time_seconds_r2"]
            IN /\ Len(w) = Len(m)
               /\ \A i \in 1..Len(m) :
                    (t1(i) # NaN /\ t2(i) # NaN) =>
                       /\ t1(i) < t2(i) => w[i] = a
                       /\ t2(i) < t1(i) => w[i] = b
                       /\ t1(i) = t2(i) => w[i] = TieText
               /\ m # <<>> =>
                    /\ h2h[s].counts[1].r1_wins = Cardinality({i \in 1..Len(m) : w[i] = a})
                    /\ h2h[s].counts[1].r2_wins = Cardinality({i \in 1..Len(m) : w[i] = b})
                    /\ h2h[s].counts[1].ties = Cardinality({i \in 1..Len(m) : w[i] = TieText})

C11_Witness ==
    \E s \in ViewSessions :
        /\ h2h[s].outcome = "computed"
        /\ Len(h2h[s].matchups) = 2
        /\ \E i, j \in 1..2 :
             /\ h2h[s].matchups[i]["ind_time_seconds_r1"] = h2h[s].matchups[i]["ind_time_seconds_r2"]
             /\ h2h[s].winners[i] = TieText
             /\ h2h[s].matchups[j]["ind_time_seconds_r2"] < h2h[s].matchups[j]["ind_time_seconds_r1"]
             /\ h2h[s].winners[j] = FullName(RowsOf(data[s].runners, ParseRunnerId(h2h[s].sel2))[1])
        /\ h2h[s].counts[1] = [r1_wins |-> 0, r2_wins |-> 1, ties |-> 1]
\* C12: the comparison of the same two runners in the other order, on the
\* same fact table, has as many matched stages, the two win counts swapped
\* and the same tie count.
C12_SwapSwapsWins ==
    \A s \in ViewSessions :
        h2h[s].outcome = "computed" =>
            LET swapped == HeadToHeadView(data[s], h2h[s].sel2, h2h[s].sel1)
            IN /\ swapped.outcome = "computed"
               /\ Len(swapped.matchups) = Len(h2h[s].matchups)
               /\ swapped.stats = <<h2h[s].stats[2], h2h[s].stats[1]>>
               /\ h2h[s].matchups # <<>> =>
                    /\ swapped.counts[1].r1_wins = h2h[s].counts[1].r2_wins
                    /\ swapped.counts[1].r2_wins = h2h[s].counts[1].r1_wins
                    /\ swapped.counts[1].ties = h2h[s].counts[1].ties

C12_Witness ==
    \E s \in ViewSessions :
        /\ h2h[s].outcome = "computed"
        /\ h2h[s].counts = <<[r1_wins |-> 2, r2_wins |-> 0, ties |-> 0]>>
        /\ HeadToHeadView(data[s], h2h[s].sel2, h2h[s].sel1).counts
              = <<[r1_wins |-> 0, r2_wins |-> 2, ties |-> 0]>>
        /\ h2h[s].stats[1].rows = 2 /\ h2h[s].stats[2].rows = 1
\* C13, as stated: legs of 10 km and 5 km at 360 s/km from 07:30 without
\* restart give leg 1 07:30:00-09:00:00 and leg 2 09:00:00-09:30:00.
C13_ExampleAsStated ==
    (/\ plan.ran
     /\ plan.legs_plan = PlanLegs(<<10, 5>>)
     /\ plan.race_start_time = Clock(7, 30)
     /\ \A i \in 1..2 : plan.widgets[i].pace_input = 360 /\ ~plan.widgets[i].restart_here) =>
        /\ plan.times[1].start_dt = Clock(7, 30) /\ plan.times[1].end_dt = Clock(9, 0)
        /\ plan.times[2].start_dt = Clock(9, 0) /\ plan.times[2].end_dt = Clock(9, 30)

\* C13, amended: the same input gives leg 1 07:30:00-08:30:00 (3600 s) and
\* leg 2 08:30:00-09:00:00 (1800 s), shown as 07:30, 08:30 and 09:00.
C13_ExampleByArithmetic ==
    (/\ plan.ran
     /\ plan.legs_plan = PlanLegs(<<10, 5>>)
     /\ plan.race_start_time = Clock(7, 30)
     /\ \A i \in 1..2 : plan.widgets[i].pace_input = 360 /\ ~plan.widgets[i].restart_here) =>
        /\ plan.times = <<[start_dt |-> Clock(7, 30), end_dt |-> Clock(8, 30), elapsed_before |-> 0],
                          [start_dt |-> Clock(8, 30), end_dt |-> Clock(9, 0), elapsed_before |-> 3600]>>
        /\ plan.plan_rows[1].PlannedStart = <<7, 30>> /\ plan.plan_rows[1].PlannedFinish = <<8, 30>>
        /\ plan.plan_rows[2].PlannedStart = <<8, 30>> /\ plan.plan_rows[2].PlannedFinish = <<9, 0>>
        /\ plan.plan_rows[1].PlannedTime = <<1, 0, 0>> /\ plan.plan_rows[2].PlannedTime = <<0, 30, 0>>

C13_Witness ==
    /\ plan.ran
    /\ plan.legs_plan = PlanLegs(<<10, 5>>)
    /\ \A i \in 1..2 : plan.widgets[i].pace_input = 360 /\ ~plan.widgets[i].restart_here
    /\ plan.plan_rows[2].PlannedFinish = <<9, 0>>
\* C14: a leg flagged as restart with time T starts exactly at T with the
\* elapsed counter at 0 and finishes at T plus its own duration, also when
\* T lies before the previous leg's finish; a later leg without restart
\* starts at the finish of the leg before it.
C14_RestartResetsClock ==
    plan.ran =>
        /\ Len(plan.times) = Len(plan.legs_plan)
        /\ \A i \in 1..Len(plan.times) :
             LET w == plan.widgets[i]
                 own == w.pace_input * plan.legs_plan[i].distance_km
             IN /\ w.restart_here =>
                     /\ plan.times[i].start_dt = w.restart_time
                     /\ plan.times[i].elapsed_before = 0
                     /\ plan.plan_rows[i].PlannedStart = StrfHM(w.restart_time)
                     /\ plan.plan_rows[i].RestartHere = "Yes"
                /\ plan.times[i].end_dt = plan.times[i].start_dt + own
                /\ (~w.restart_here /\ i > 1) =>
                     plan.times[i].start_dt = plan.times[i - 1].end_dt

C14_Witness ==
    /\ plan.ran
    /\ Len(plan.times) = 3
    /\ plan.widgets[2].restart_here /\ ~plan.widgets[3].restart_here
    /\ plan.times[2].start_dt = Clock(8, 0)
    /\ plan.times[1].end_dt = Clock(8, 30)
    /\ plan.times[2].end_dt = Clock(8, 25)
    /\ plan.times[3].start_dt = Clock(8, 25)
    /\ plan.plan_rows[3].PlannedFinish = <<8, 55>>
C16_UnmatchedRunnerUnchanged ==
    \A s \in ViewSessions :
        data[s].ok =>
            /\ Len(data[s].runners) = Len(BaseRunnersDf)
            /\ \A i \in 1..Len(BaseRunnersDf) :
                 (\A k \in 1..Len(Store) : Store[k].rid # BaseRunnersDf[i]["runner_id"]) =>
                    data[s].runners[i] = BaseRunnersDf[i]

C16_Witness ==
    \E s \in ViewSessions :
        /\ data[s].ok
        /\ Len(Store) = 1
        /\ Len(BaseRunnersDf) = 2
        /\ BaseRunnersDf[1]["runner_id"] = Store[1].rid
        /\ BaseRunnersDf[2]["runner_id"] # Store[1].rid
        /\ data[s].runners[1] # BaseRunnersDf[1]
        /\ data[s].runners[2] = BaseRunnersDf[2]
\* C17, as stated: the export has exactly one row for every runner id of
\* the override store it loaded, with or without a base record, and no
\* other row.
C17_OneRowPerOverride ==
    \A s \in ViewSessions :
        exported[s].outcome # "none" =>
            /\ exported[s].outcome \in {"empty", "table"}
            /\ \A k \in 1..Len(exported[s].overrides) :
                 Cardinality({i \in 1..Len(exported[s].rows) :
                     exported[s].rows[i]["runner_id"] = exported[s].overrides[k].rid}) = 1
            /\ \A i \in 1..Len(exported[s].rows) :
                 \E k \in 1..Len(exported[s].overrides) :
                     exported[s].rows[i]["runner_id"] = exported[s].overrides[k].rid

\* C18, as stated: in the export, every exported field that is present in
\* a runner's override entry has the override's value, null included.
C18_ExportPrefersPresentField ==
    \A s \in ViewSessions :
        exported[s].outcome = "table" =>
            \A k \in 1..Len(exported[s].overrides) : \A i \in 1..Len(exported[s].rows) :
                exported[s].rows[i]["runner_id"] = exported[s].overrides[k].rid =>
                    \A F \in (DOMAIN exported[s].overrides[k].fields) \cap ExportCols :
                        exported[s].rows[i][F] = exported[s].overrides[k].fields[F]
RECURSIVE OwnKm(_, _, _)
OwnKm(merged, rid, n) ==
    IF n = 0 THEN 0
    ELSE OwnKm(merged, rid, n - 1)
           + (IF merged[n]["runner_id"] = rid /\ merged[n]["distance_km"] # NaN
              THEN merged[n]["distance_km"] ELSE 0)

\* C20: the career figures of a runner without any result row are computed
\* without an error: 0 starts, 0 years, 0 km, no mean pace (not 0) and no
\* best rank; and a runner's total distance is the sum of the distances of
\* that runner's own rows of the fact table.
C20_AggregatesOfNoRows ==
    \A s \in ViewSessions :
        (h2h[s].sel1 # NotSelected /\ h2h[s].sel2 # NotSelected
           /\ ParseRunnerId(h2h[s].sel1) # ParseRunnerId(h2h[s].sel2)
           /\ \A k \in 1..2 : \E i \in 1..Len(data[s].runners) :
                 data[s].runners[i]["runner_id"]
                    = ParseRunnerId(<<h2h[s].sel1, h2h[s].sel2>>[k]))
        => /\ h2h[s].outcome = "computed"
           /\ \A k \in 1..2 :
                LET rid == ParseRunnerId(<<h2h[s].sel1, h2h[s].sel2>>[k])
                    merged == data[s].merged
                    own == {i \in 1..Len(merged) : merged[i]["runner_id"] = rid}
                    st == h2h[s].stats[k]
                IN /\ st.total_km = OwnKm(merged, rid, Len(merged))
                   /\ own = {} =>
                        /\ st.total_runs = 0
                        /\ st.total_years = 0
                        /\ st.total_km = 0
                        /\ st.avg_pace = NoMean
                        /\ st.best_rank = NaN

C20_Witness ==
    \E s \in ViewSessions :
        /\ h2h[s].outcome = "computed"
        /\ h2h[s].stats[2].rows = 0
        /\ h2h[s].stats[2].avg_pace = NoMean
        /\ h2h[s].stats[1].rows = 3
        /\ h2h[s].stats[1].total_km = 15
        /\ h2h[s].stats[1].avg_pace = <<1200, 3>>
        /\ h2h[s].stats[1].best_rank = 1

\* The rows of legs.json that belong to the template race of the plan.
TemplateLegs ==
    {k \in 1..Len(legs) : legs[k]["race_id"] = RaceIdTemplate(plan.template_year)}

PlannedDuration(j) == plan.widgets[j].pace_input * plan.legs_plan[j]["distance_km"]

RECURSIVE PlannedDurations(_, _)
PlannedDurations(a, b) ==
    IF a > b THEN 0 ELSE PlannedDuration(b) + PlannedDurations(a, b - 1)

\* C22: every stage starts at the most recent reset point (the race start,
\* or the restart time of the latest restart stage up to and including it)
\* plus the durations of the stages from that point up to the one before
\* it, and finishes at its start plus its own duration; so a stage after
\* the first without restart starts at the finish of the one before, and a
\* first stage without restart starts at the race start.
C22_StartIsResetPlusElapsed ==
    plan.outcome = "table" =>
        \A i \in 1..Len(plan.times) :
            LET resets == {j \in 1..i : plan.widgets[j].restart_here}
                r == IF resets = {} THEN 0
                     ELSE CHOOSE j \in resets : \A k \in resets : k <= j
                base == IF r = 0 THEN plan.race_start_time
                        ELSE plan.widgets[r].restart_time
                from == IF r = 0 THEN 1 ELSE r
            IN /\ plan.times[i].start_dt = base + PlannedDurations(from, i - 1)
               /\ plan.times[i].end_dt = plan.times[i].start_dt + PlannedDuration(i)
               /\ (i > 1 /\ ~plan.widgets[i].restart_here) =>
                     plan.times[i].start_dt = plan.times[i - 1].end_dt
               /\ (i = 1 /\ ~plan.widgets[i].restart_here) =>
                     plan.times[i].start_dt = plan.race_start_time

C22_Witness ==
    /\ plan.outcome = "table"
    /\ Len(plan.times) = 3
    /\ ~plan.widgets[1].restart_here
    /\ plan.widgets[2].restart_here
    /\ ~plan.widgets[3].restart_here
    /\ plan.times[1].end_dt = Clock(7, 30) + 750
    /\ plan.times[2].end_dt = Clock(8, 30)
    /\ plan.times[3].start_dt = Clock(8, 30)
    /\ plan.times[3].end_dt = Clock(9, 30)

\* C23: the planning loop never fails; the duration of a stage is its pace
\* times its distance, and 0 (finish = start) when the distance is missing
\* or zero.
C23_MissingDistanceIsZero ==
    plan.ran =>
        /\ plan.outcome # "ValueError"
        /\ plan.outcome = "table" =>
             /\ Len(plan.times) = Len(plan.legs_plan)
             /\ \A i \in 1..Len(plan.times) :
                  LET d == plan.legs_plan[i]["distance_km"]
                      own == IF d = NaN \/ d = 0 THEN 0
                             ELSE plan.widgets[i].pace_input * d
                  IN plan.times[i].end_dt = plan.times[i].start_dt + own

\* The (team, year) pairs of the rows of the runner selected in the runner
\* details, each with the final rank and the name that teams.json gives the
\* team (no rank when it has no such team).
DetailPairs(s) ==
    LET rid == ParseRunnerId(views[s].details.label)
        own == {i \in 1..Len(data[s].merged) : data[s].merged[i]["runner_id"] = rid}
    IN {[team_id |-> data[s].merged[i]["team_id"], year |-> data[s].merged[i]["year"],
         rank |-> data[s].merged[i]["rank_final"],
         name |-> data[s].merged[i]["team_name"]] : i \in own}

\* C24: for a runner with result rows the runner details report the lowest
\* non-null final rank among the (team, year) pairs of those rows, with the
\* name and the year of a pair that has this rank, and report no best final
\* rank when no pair has a rank.
C24_BestFinalRankIsLowest ==
    \A s \in ViewSessions :
        (views[s].ran /\ DetailPairs(s) # {}) =>
            LET ranked == {p \in DetailPairs(s) : p.rank # NaN}
                best == views[s].details.best
            IN /\ ranked = {} => ~best.reported
               /\ ranked # {} =>
                    /\ best.reported
                    /\ \A p \in ranked : best.rank <= p.rank
                    /\ \E p \in ranked : /\ p.rank = best.rank
                                         /\ p.name = best.name
                                         /\ p.year = best.year

\* C25: in a comparison of two distinct runner ids with matched stages, the
\* wins of runner 1, the wins of runner 2 and the ties add up to the number
\* of matched stages, also when the two runners have the same name.
C25_CountsAddUp ==
    \A s \in ViewSessions :
        (h2h[s].outcome = "computed" /\ h2h[s].matchups # <<>>) =>
            h2h[s].counts[1].r1_wins + h2h[s].counts[1].r2_wins + h2h[s].counts[1].ties
                = Len(h2h[s].matchups)

C26_SaveKeepsOtherEntries ==
    [][\A s \in Sessions :
          (pc[s] = "save_write" /\ pc'[s] = "saved") =>
              LET before == LoadRunnerOverridesFrom(prev[s].doc).value
                  after == LoadRunnerOverridesFrom(file').value
              IN \A i \in 1..Len(before) :
                    before[i].rid # editing[s] =>
                        \E j \in 1..Len(after) : after[j] = before[i]]_vars

\* C27: when a team is selected in the year view, every row shown and
\* counted has the team_id of the selected team.
C27_YearViewShowsSelectedTeam ==
    \A s \in ViewSessions :
        (views[s].ran /\ views[s].year.selected_team_label # AllTeams) =>
            /\ \A i \in 1..Len(views[s].year.year_df) :
                  views[s].year.year_df[i]["team_id"] = views[s].year.selected_team_id
            /\ views[s].year.num_teams <= 1

\* The runner of a label has two rows of the fact table with the same
\* non-null leg_id.
RepeatsALeg(s, label) ==
    LET merged == data[s].merged
    IN \E i, j \in 1..Len(merged) :
          /\ i # j
          /\ merged[i]["runner_id"] = ParseRunnerId(label)
          /\ merged[j]["runner_id"] = ParseRunnerId(label)
          /\ merged[i]["leg_id"] # NULL
          /\ merged[i]["leg_id"] = merged[j]["leg_id"]

\* What C30 compares, for the runners that satisfy Ok: the "Stage starts"
\* of the runner details and of the head-to-head view against the "Starts"
\* of the runner overview; a runner without rows has no line in the overview.
StartsAgree(s, Ok(_)) ==
    views[s].overview # <<>> =>
        /\ (views[s].details.outcome = "stats" /\ Ok(views[s].details.label)) =>
              views[s].details.total_runs
                 = views[s].overview[ParseRunnerId(views[s].details.label)].num_runs
        /\ h2h[s].outcome = "computed" =>
              \A k \in 1..2 :
                 LET label == <<h2h[s].sel1, h2h[s].sel2>>[k]
                 IN (h2h[s].stats[k].rows > 0 /\ Ok(label)) =>
                       h2h[s].stats[k].total_runs
                          = views[s].overview[ParseRunnerId(label)].num_runs

\* C30, as stated: the start count of a runner is the same in the runner
\* details, the head-to-head view and the runner overview, for every fact
\* table.
C30_StartsSameInEveryView ==
    \A s \in ViewSessions : StartsAgree(s, LAMBDA label : TRUE)

\* C30, amended: the counts are the same for a runner of whom no two rows
\* of the fact table have the same leg_id.
C30_StartsSameWithoutRepeatedLeg ==
    \A s \in ViewSessions : StartsAgree(s, LAMBDA label : ~RepeatsALeg(s, label))

C30_Witness ==
    \E s \in ViewSessions :
        /\ views[s].details.outcome = "stats"
        /\ ParseRunnerId(views[s].details.label) = R1
        /\ ~RepeatsALeg(s, views[s].details.label)
        /\ Len(RowsOf(data[s].merged, R1)) = 2
        /\ views[s].details.total_runs = 1
        /\ views[s].overview[R1].num_runs = 1
        /\ h2h[s].outcome = "computed"
        /\ ParseRunnerId(h2h[s].sel1) = R1
        /\ h2h[s].stats[1].total_runs = 1

\* The entries of the store whose value is a field map.
WellShaped(mapping) == SelectSeq(mapping, LAMBDA e : IsDict(e.fields))

\* C28: whatever JSON object the override file holds, also one with values
\* that are no field maps, load_data completes without raising, and the
\* effective runners are the base runners with the well-shaped entries
\* applied: a wrong-shaped entry is no override.
C28_WrongShapeIsNoOverride ==
    \A s \in Sessions :
        /\ ~data[s].raised
        /\ data[s].ok =>
              data[s].runners
                 = ApplyEntries(RenameTable(runners, RawRunnerCols, "id", "runner_id"),
                                RunnerCols,
                                WellShaped(LoadRunnerOverridesFrom(file).value))

====
